---- MODULE Spec2Model ----
(***************************************************************************)
(* A model of the observation pipeline of spyfs (focus/native/spyfs):      *)
(*   - the tablet store          tablet.h, tablet.cpp                      *)
(*   - the token table and trie  moniker.h, moniker.cpp                    *)
(*   - the inode registry        fs.cpp                                    *)
(* Each subsystem has its own specification over the module's variables;   *)
(* the variables of the other subsystems stay at their initial values.     *)
(***************************************************************************)
EXTENDS Integers, Sequences, FiniteSets, TLC

(***************************************************************************)
(* Bounds of the model.                                                    *)
(***************************************************************************)
\* the worker threads t0 and t1 of TEST_F(TabletTest, Sweep)
NWorkers == 2
\* values each worker inserts (the test's `count`, 500 there)
Count == 2
\* calls of Tablets::Sweep in one behaviour
MaxSweeps == 2
\* largest index handed to Tablets::At directly
MaxIndex == 2

\* calls of TokenTable::GetOrInsert on a table of its own in one behaviour
MaxCalls == 4
\* length of the paths handed to MonikerTable::Insert
MaxPathLen == 3
\* inode numbers are 0 .. MaxInode
MaxInode == 1
\* calls of MonikerTable::Insert after the constructor's in one behaviour
MaxInserts == 2
\* calls of MonikerNode::Get on a trie of its own, and the largest word
MaxGets == 4
MaxWord == 1

\* the reserved inode number of the mount's root (fuse_lowlevel.h)
FUSE_ROOT_ID == 1
\* the source tree's inode numbers are FUSE_ROOT_ID .. MaxIno
MaxIno == 2
\* upcalls the kernel delivers in one behaviour
MaxFsOps == 3
\* largest count of a forget that ignores the lookups the kernel holds
MaxForget == 2

\* frames alive in one thread: a handler and one it calls
MaxDepth == 2
\* frames constructed plus Context::Add calls of one thread in one behaviour
MaxUpOps == 3
\* SetEnabled calls in one behaviour
MaxToggles == 1
\* quiesce calls in one run
MaxQuiesce == 2
\* system calls of one TryWrite whose outcome is chosen freely
MaxSys == 2

\* size_t arithmetic, at 16 bits instead of 64 (TLC's integers have 32)
SizeModulus == 2 ^ 16
SIZE_MAX == SizeModulus - 1
\* the number of Tablet objects the heap can hold before make_unique throws
MemSlots == 4

Workers == 1 .. NWorkers
\* the thread that sweeps (the tests' main thread, the thread that quiesces)
Main == NWorkers + 1
\* a second thread that sweeps: quiesce runs from sfs_destroy and on SIGHUP
Second == NWorkers + 2
Sweepers == {Main, Second}
Threads == Workers \cup Sweepers

\* the range [begin, begin + count) of worker w: the test hands out i * mul
Begin(w) == (w - 1) * Count
End(w) == Begin(w) + Count
Values == 0 .. (NWorkers * Count - 1)

VARIABLES
  \* ---- tablet.cpp
  global_thread_count,  \* GetLogicalThreadId: static atomic counter
  thread_id,            \* GetLogicalThreadId: thread_local id, SIZE_MAX = unset
  tablets_,             \* Tablets::tablets_: slot -> Tablet object
  tab_data,             \* Tablet::data_ of every live Tablet object
  tab_mu,               \* Tablet::mu_ of every live Tablet object: 0 or holder
  mu_readers,           \* Tablets::mu_: threads holding it shared
  sweep_mu_,            \* Tablets::sweep_mu_: 0 or holder
  pc,                   \* where each thread is
  at_index,             \* At: the parameter index
  at_own,               \* At was entered through GetTabletForThisThread
  t,                    \* the worker's shared_ptr<Tablet> t (0 = not yet)
  next,                 \* the worker's loop variable i
  sw_into,              \* Sweep: the parameter into (an aggregated tablet)
  sw_after,             \* Sweep was called after every worker had finished
  swap_tablets,         \* Sweep: the local vector swap_tablets
  sw_i,                 \* Sweep: the loop variable i
  agg,                  \* the callers' aggregated tablets (Tablet aggregated)
  crashed,              \* the process died of an uncaught exception
  \* ---- observations
  issued,               \* <<thread, id>> returned by GetLogicalThreadId
  handed,               \* <<index, Tablet>> returned by At
  ins_at,               \* value -> sweeps completed when it was inserted
  sweeps_started,       \* Sweep calls so far
  sweep_log,            \* the completed sweeps, in order
  \* ---- moniker.cpp
  id_,                  \* TokenTable::id_
  forward_,             \* TokenTable::forward_: the Tokens, keyed by value
  reverse_,             \* TokenTable::reverse_: position -> Token
  nodes,                \* the MonikerNodes alive; nodes[1] is MonikerTable::root_
  id_to_terminal_,      \* MonikerTable::id_to_terminal_
  root_node_id_,        \* MonikerTable::root_node_id_
  \* ---- observations
  tt_calls,             \* the GetOrInsert calls on the table of its own
  inserts,              \* MonikerTable::Insert calls since the constructor
  op,                   \* the last call of the table and what it returned
  \* ---- fs.cpp
  fs_inodes,            \* fs.inodes: SrcId -> the Inode record it holds
  fs_recs,              \* the Inode records ever allocated, by address
  fs_mutex,             \* fs.mutex: 0 or holder
  inode_m,              \* Inode::m of every record: 0 or holder
  fd_tab,               \* the descriptors openat returned: times closed
  fs_pc,                \* where each upcall thread is
  fs_loc,               \* the locals of the upcall a thread runs
  fs_fault,             \* "none", "fatal" (LOG(FATAL)) or "crash"
  \* ---- observations
  fs_ret,               \* what the thread's last upcall returned
  known,                \* handle -> lookups the kernel holds for it
  looked,               \* SrcId -> lookups replied with success
  forgot,               \* SrcId -> lookups the kernel's forgets gave back
  fs_ops,               \* upcalls delivered so far
  \* ---- fs.cpp, tracer
  log_dir,              \* FLAGS_access_log_directory is not empty
  root_enabled,         \* enabled_ of the root Context
  thread_enabled,       \* enabled_ of every thread's Context
  attribution_stack,    \* thread_local attribution_stack: the frames alive
  root_mu,              \* mu_ of the root Context: 0 or holder
  epoch,                \* NextEpoch: static atomic counter
  files,                \* the log files opened, in the order of their open()
  q_pc,                 \* where each thread is in quiesce
  q_into,               \* WriteLog: the local Tablet aggregated (0 = none)
  log_fault,            \* "none" or "abort" (PCHECK, LOG(FATAL))
  sig_on,               \* the thread catch_signal runs on (0 = not running)
  \* ---- observations
  up_add,               \* who entered AddInode last: "none", "frame", "add"
  up_loc,               \* the inode of that AddInode call
  up_ops,               \* frames constructed and Context::Add calls so far
  toggles,              \* SetEnabled calls so far
  quiesces,             \* quiesce calls so far
  \* ---- tracker.cpp
  include_files,        \* the parameter include_files
  scan_path,            \* the parameter path
  fts_tree,             \* the entries below path, siblings in strcmp order
  fts_reads,            \* what fts_read is still to return, in order
  fts_cur,              \* the entry fts_read returned last (parent)
  fts_child,            \* the rest of the list fts_children returned (entry)
  addition_count,       \* the local addition_count
  scan_pc,              \* "idle", "loop", "done" or "fatal" (LOG(FATAL))
  \* ---- moniker.cpp, threads inside the calls
  tok_mu,               \* TokenTable::mu_: its writer (0 = none) and readers
  node_mu,              \* MonikerNode::mu_ of every node alive
  table_mu,             \* MonikerTable::mu_
  c_pc,                 \* where each thread is in its call
  c_loc,                \* the parameters and locals of that call
  \* ---- observations
  c_calls,              \* calls begun so far
  c_log                 \* the calls that returned, with what they returned

tabletVars == <<global_thread_count, thread_id, tablets_, tab_data, tab_mu,
                mu_readers, sweep_mu_, pc, at_index, at_own, t, next, sw_into,
                sw_after, swap_tablets, sw_i, agg, crashed, issued, handed,
                ins_at, sweeps_started, sweep_log>>

monikerVars == <<id_, forward_, reverse_, nodes, id_to_terminal_,
                 root_node_id_, tt_calls, inserts, op>>

fsVars == <<fs_inodes, fs_recs, fs_mutex, inode_m, fd_tab, fs_pc, fs_loc,
            fs_fault, fs_ret, known, looked, forgot, fs_ops>>

logVars == <<log_dir, root_enabled, thread_enabled, attribution_stack,
             root_mu, epoch, files, q_pc, q_into, log_fault, sig_on, up_add,
             up_loc, up_ops, toggles, quiesces>>

scanVars == <<include_files, scan_path, fts_tree, fts_reads, fts_cur,
              fts_child, addition_count, scan_pc>>

concVars == <<tok_mu, node_mu, table_mu, c_pc, c_loc, c_calls, c_log>>

vars == <<tabletVars, monikerVars, fsVars, logVars, scanVars, concVars>>

(***************************************************************************)
(* Tracer: the state the process starts with                               *)
(***************************************************************************)

\* the contexts take enabled_ from the flag when they are constructed:
\* GetRootContext's static, GetThreadContext's thread_local
LogStart ==
  /\ root_enabled = log_dir
  /\ thread_enabled = [w \in Workers |-> log_dir]
  /\ attribution_stack = [w \in Workers |-> <<>>]
  /\ root_mu = 0
  /\ epoch = 0
  /\ files = <<>>
  /\ q_pc = [q \in Sweepers |-> "idle"]
  /\ q_into = [q \in Sweepers |-> 0]
  /\ log_fault = "none"
  /\ sig_on = 0
  /\ up_add = [w \in Workers |-> "none"]
  /\ up_loc = [w \in Workers |-> 0]
  /\ up_ops = [w \in Workers |-> 0]
  /\ toggles = 0
  /\ quiesces = 0

\* no tracer: the other subsystems on their own
LogUnused == log_dir = FALSE /\ LogStart

\* an absl::Mutex nobody holds
Unlocked == [writer |-> 0, readers |-> {}]

\* no thread is inside a call of the token table, a node or the moniker table
ConcStart ==
  /\ tok_mu = Unlocked
  /\ table_mu = Unlocked
  /\ c_pc = [th \in Workers |-> "idle"]
  /\ c_loc = [th \in Workers |-> <<>>]
  /\ c_calls = 0
  /\ c_log = <<>>

\* the calls are modelled whole
ConcUnused == node_mu = <<>> /\ ConcStart

\* no scan of a source tree
ScanUnused ==
  /\ include_files = FALSE
  /\ scan_path = <<>>
  /\ fts_tree = <<>>
  /\ fts_reads = <<>>
  /\ fts_cur = 0
  /\ fts_child = <<>>
  /\ addition_count = 0
  /\ scan_pc = "idle"

(***************************************************************************)
(* Inode registry: the state `static Fs fs{}` starts with                  *)
(***************************************************************************)

\* the threads of fuse_session_loop_mt that run upcalls
FsThreads == {1, 2}
\* fs.src_dev, and a device mounted inside the source tree
SrcDev == 0
OtherDev == 1
\* what fstatat can report for the target of a lookup
Targets == (FUSE_ROOT_ID .. MaxIno) \X {SrcDev, OtherDev}

NoLoc == [id |-> <<0, 0>>, newfd |-> 0, h |-> 0, n |-> 0, cause |-> "none"]

FsInit ==
  /\ fs_inodes = <<>>
  /\ fs_recs = <<>>
  /\ fs_mutex = 0
  /\ inode_m = <<>>
  /\ fd_tab = <<>>
  /\ fs_pc = [th \in FsThreads |-> "idle"]
  /\ fs_loc = [th \in FsThreads |-> NoLoc]
  /\ fs_fault = "none"
  /\ fs_ret = [th \in FsThreads |-> [name |-> "none", err |-> "", h |-> 0]]
  /\ known = <<>>
  /\ looked = [k \in Targets |-> 0]
  /\ forgot = [k \in Targets |-> 0]
  /\ fs_ops = 0

(***************************************************************************)
(* Tablet store                                                            *)
(***************************************************************************)

TabletInit ==
  /\ global_thread_count = 0
  /\ thread_id = [w \in Workers |-> SIZE_MAX]
  /\ tablets_ = <<>>
  /\ tab_data = <<>>
  /\ tab_mu = <<>>
  /\ mu_readers = {}
  /\ sweep_mu_ = 0
  /\ pc = [th \in Threads |-> "idle"]
  /\ at_index = [th \in Threads |-> 0]
  /\ at_own = [th \in Threads |-> FALSE]
  /\ t = [w \in Workers |-> 0]
  /\ next = [w \in Workers |-> Begin(w)]
  /\ sw_into = [s \in Sweepers |-> 0]
  /\ sw_after = [s \in Sweepers |-> FALSE]
  /\ swap_tablets = [s \in Sweepers |-> <<>>]
  /\ sw_i = [s \in Sweepers |-> 0]
  /\ agg = <<>>
  /\ crashed = FALSE
  /\ issued = {}
  /\ handed = {}
  /\ ins_at = [v \in Values |-> -1]
  /\ sweeps_started = 0
  /\ sweep_log = <<>>

\* the worker has run its loop to the end and is in no call
WorkerDone(w) == next[w] = End(w) /\ pc[w] = "idle"
AllWorkersDone == \A w \in Workers : WorkerDone(w)

\* Context::AddInode(next[w]) begins with Tablets::GetTabletForThisThread:
\* GetLogicalThreadId(), then At(id) is entered
GetTabletForThisThread(w) ==
  /\ ~crashed
  /\ pc[w] = "idle"
  /\ next[w] < End(w)
  /\ LET unset == thread_id[w] = SIZE_MAX
         id == IF unset THEN global_thread_count ELSE thread_id[w]
     IN /\ thread_id' = [thread_id EXCEPT ![w] = id]
        /\ global_thread_count' =
             IF unset THEN (global_thread_count + 1) % SizeModulus
                      ELSE global_thread_count
        /\ issued' = issued \cup {<<w, id>>}
        \* CHECK(thread_id < SIZE_MAX)
        /\ crashed' = ~(id < SIZE_MAX)
        /\ at_index' = [at_index EXCEPT ![w] = id]
        /\ at_own' = [at_own EXCEPT ![w] = TRUE]
        /\ pc' = [pc EXCEPT ![w] = "at_read"]
  /\ UNCHANGED <<tablets_, tab_data, tab_mu, mu_readers, sweep_mu_, t, next,
                 sw_into, sw_after, swap_tablets, sw_i, agg, handed, ins_at,
                 sweeps_started, sweep_log>>
  /\ UNCHANGED <<monikerVars, fsVars, logVars, scanVars, concVars>>

\* a direct call of Tablets::At(index) from the main thread, as in
\* TEST_F(TabletTest, Smoke) and TEST_F(TabletTest, Swap)
At_Call(w, index) ==
  /\ ~crashed
  /\ pc[w] = "idle"
  /\ at_index' = [at_index EXCEPT ![w] = index]
  /\ at_own' = [at_own EXCEPT ![w] = FALSE]
  /\ pc' = [pc EXCEPT ![w] = "at_read"]
  /\ UNCHANGED <<global_thread_count, thread_id, tablets_, tab_data, tab_mu,
                 mu_readers, sweep_mu_, t, next, sw_into, sw_after,
                 swap_tablets, sw_i, agg, crashed, issued, handed, ins_at,
                 sweeps_started, sweep_log>>
  /\ UNCHANGED <<monikerVars, fsVars, logVars, scanVars, concVars>>

\* a slip: the newest slot is returned, whatever the index
AtSlot_Back(slots, index) == slots[Len(slots)]

\* tablets_.at(index)
AtSlot(slots, index) == slots[index + 1]

\* the first block of At: `if (tablets_.size() > index + 1)`
AtAllocated(size, index) == size > index + 1

\* At returns tablet tab for at_index[w]
AtReturn(w, tab) ==
  /\ handed' = handed \cup {<<at_index[w], tab>>}
  /\ t' = IF at_own[w] THEN [t EXCEPT ![w] = tab] ELSE t
  /\ pc' = [pc EXCEPT ![w] = IF at_own[w] THEN "got" ELSE "idle"]

\* At, first block: under the shared lock (never blocked: the writer block of
\* At is one step), return an allocated slot or fall through
At_Read(w) ==
  /\ ~crashed
  /\ pc[w] = "at_read"
  /\ IF AtAllocated(Len(tablets_), at_index[w])
       THEN AtReturn(w, AtSlot(tablets_, at_index[w]))
       ELSE /\ pc' = [pc EXCEPT ![w] = "at_write"]
            /\ UNCHANGED <<handed, t>>
  /\ UNCHANGED <<global_thread_count, thread_id, tablets_, tab_data, tab_mu,
                 mu_readers, sweep_mu_, at_index, at_own, next, sw_into,
                 sw_after, swap_tablets, sw_i, agg, crashed, issued, ins_at,
                 sweeps_started, sweep_log>>
  /\ UNCHANGED <<monikerVars, fsVars, logVars, scanVars, concVars>>

\* the initial value of the loop variable: size_t i = index + 1 - size
GrowCount(index, size) == (index + 1 - size) % SizeModulus

\* At, second block: under the exclusive lock, emplace_back GrowCount times and
\* return the slot. The loop throws std::bad_alloc once the heap is full; the
\* exception leaves the thread function and the process terminates.
At_Write(w) ==
  /\ ~crashed
  /\ pc[w] = "at_write"
  /\ mu_readers = {}
  /\ LET n == GrowCount(at_index[w], Len(tablets_))
         size == Len(tablets_)
     IN IF size + n > MemSlots
          THEN /\ crashed' = TRUE
               /\ UNCHANGED <<tablets_, tab_data, tab_mu, handed, t, pc>>
          ELSE /\ tablets_' = tablets_ \o [k \in 1 .. n |-> Len(tab_data) + k]
               /\ tab_data' = tab_data \o [k \in 1 .. n |-> {}]
               /\ tab_mu' = tab_mu \o [k \in 1 .. n |-> 0]
               /\ AtReturn(w, AtSlot(tablets_', at_index[w]))
               /\ UNCHANGED crashed
  /\ UNCHANGED <<global_thread_count, thread_id, mu_readers, sweep_mu_,
                 at_index, at_own, next, sw_into, sw_after, swap_tablets,
                 sw_i, agg, issued, ins_at, sweeps_started, sweep_log>>
  /\ UNCHANGED <<monikerVars, fsVars, logVars, scanVars, concVars>>

\* Context::AddInode goes on with tablet->Insert(inode): the WriterMutexLock
Insert_Lock(w) ==
  /\ ~crashed
  /\ pc[w] = "got"
  /\ tab_mu[t[w]] = 0
  /\ tab_mu' = [tab_mu EXCEPT ![t[w]] = w]
  /\ pc' = [pc EXCEPT ![w] = "insert"]
  /\ UNCHANGED <<global_thread_count, thread_id, tablets_, tab_data,
                 mu_readers, sweep_mu_, at_index, at_own, t, next, sw_into,
                 sw_after, swap_tablets, sw_i, agg, crashed, issued, handed,
                 ins_at, sweeps_started, sweep_log>>
  /\ UNCHANGED <<monikerVars, fsVars, logVars, scanVars, concVars>>

\* a slip: the set is replaced by the datum
Emplace_Replace(data, datum) == {datum}

\* data_->emplace(datum)
Emplace(data, datum) == data \cup {datum}

\* Tablet::Insert, emplace and unlock; the loop's ++i
Insert_Emplace(w) ==
  /\ ~crashed
  /\ pc[w] = "insert"
  /\ tab_data' = [tab_data EXCEPT ![t[w]] = Emplace(@, next[w])]
  /\ tab_mu' = [tab_mu EXCEPT ![t[w]] = 0]
  /\ ins_at' = [ins_at EXCEPT ![next[w]] = Len(sweep_log)]
  /\ next' = [next EXCEPT ![w] = @ + 1]
  /\ pc' = [pc EXCEPT ![w] = "idle"]
  /\ UNCHANGED <<global_thread_count, thread_id, tablets_, mu_readers,
                 sweep_mu_, at_index, at_own, t, sw_into, sw_after,
                 swap_tablets, sw_i, agg, crashed, issued, handed,
                 sweeps_started, sweep_log>>
  /\ UNCHANGED <<monikerVars, fsVars, logVars, scanVars, concVars>>

\* a caller constructs or reuses an aggregated tablet and calls Sweep(into)
Sweep_Call(s, into) ==
  /\ ~crashed
  /\ pc[s] = "idle"
  /\ sweeps_started < MaxSweeps
  /\ agg' = IF into = Len(agg) + 1 THEN Append(agg, {}) ELSE agg
  /\ sw_into' = [sw_into EXCEPT ![s] = into]
  /\ sw_after' = [sw_after EXCEPT ![s] = AllWorkersDone]
  /\ sweeps_started' = sweeps_started + 1
  /\ pc' = [pc EXCEPT ![s] = "sw_lock"]
  /\ UNCHANGED <<global_thread_count, thread_id, tablets_, tab_data, tab_mu,
                 mu_readers, sweep_mu_, at_index, at_own, t, next,
                 swap_tablets, sw_i, crashed, issued, handed, ins_at,
                 sweep_log>>
  /\ UNCHANGED <<monikerVars, fsVars, logVars, scanVars, concVars>>

\* a slip: Sweep goes on without waiting for sweep_mu_
Sweep_Lock_NoWait(s) ==
  /\ ~crashed
  /\ pc[s] = "sw_lock"
  /\ sweep_mu_' = s
  /\ pc' = [pc EXCEPT ![s] = "sw_count"]
  /\ UNCHANGED <<global_thread_count, thread_id, tablets_, tab_data, tab_mu,
                 mu_readers, at_index, at_own, t, next, sw_into, sw_after,
                 swap_tablets, sw_i, agg, crashed, issued, handed, ins_at,
                 sweeps_started, sweep_log>>
  /\ UNCHANGED <<monikerVars, fsVars, logVars, scanVars, concVars>>

\* Sweep: absl::MutexLock{&sweep_mu_}
Sweep_Lock(s) ==
  /\ ~crashed
  /\ pc[s] = "sw_lock"
  /\ sweep_mu_ = 0
  /\ sweep_mu_' = s
  /\ pc' = [pc EXCEPT ![s] = "sw_count"]
  /\ UNCHANGED <<global_thread_count, thread_id, tablets_, tab_data, tab_mu,
                 mu_readers, at_index, at_own, t, next, sw_into, sw_after,
                 swap_tablets, sw_i, agg, crashed, issued, handed, ins_at,
                 sweeps_started, sweep_log>>
  /\ UNCHANGED <<monikerVars, fsVars, logVars, scanVars, concVars>>

\* std::vector<Tablet>::resize(n): truncate, or append empty tablets
Resize(v, n) ==
  IF n <= Len(v) THEN SubSeq(v, 1, n)
                 ELSE v \o [k \in 1 .. (n - Len(v)) |-> {}]

\* Sweep: count = tablets_.size() under the shared lock; swap_tablets.resize(count)
Sweep_Count(s) ==
  /\ ~crashed
  /\ pc[s] = "sw_count"
  /\ swap_tablets' = [swap_tablets EXCEPT ![s] = Resize(<<>>, Len(tablets_))]
  /\ pc' = [pc EXCEPT ![s] = "sw_begin"]
  /\ UNCHANGED <<global_thread_count, thread_id, tablets_, tab_data, tab_mu,
                 mu_readers, sweep_mu_, at_index, at_own, t, next, sw_into,
                 sw_after, sw_i, agg, crashed, issued, handed, ins_at,
                 sweeps_started, sweep_log>>
  /\ UNCHANGED <<monikerVars, fsVars, logVars, scanVars, concVars>>

\* Sweep: take the shared lock again, right-size swap_tablets, i = 0
Sweep_Begin(s) ==
  /\ ~crashed
  /\ pc[s] = "sw_begin"
  /\ mu_readers' = mu_readers \cup {s}
  /\ swap_tablets' = [swap_tablets EXCEPT ![s] = Resize(@, Len(tablets_))]
  /\ sw_i' = [sw_i EXCEPT ![s] = 0]
  /\ pc' = [pc EXCEPT ![s] = "sw_loop"]
  /\ UNCHANGED <<global_thread_count, thread_id, tablets_, tab_data, tab_mu,
                 sweep_mu_, at_index, at_own, t, next, sw_into, sw_after, agg,
                 crashed, issued, handed, ins_at, sweeps_started, sweep_log>>
  /\ UNCHANGED <<monikerVars, fsVars, logVars, scanVars, concVars>>

\* Sweep, loop body: WriterMutexLock on swap_tablets[i] (local, free) and on tab
Sweep_TabLock(s) ==
  /\ ~crashed
  /\ pc[s] = "sw_loop"
  /\ sw_i[s] < Len(tablets_)
  /\ tab_mu[AtSlot(tablets_, sw_i[s])] = 0
  /\ tab_mu' = [tab_mu EXCEPT ![AtSlot(tablets_, sw_i[s])] = s]
  /\ pc' = [pc EXCEPT ![s] = "sw_swap"]
  /\ UNCHANGED <<global_thread_count, thread_id, tablets_, tab_data,
                 mu_readers, sweep_mu_, at_index, at_own, t, next, sw_into,
                 sw_after, swap_tablets, sw_i, agg, crashed, issued, handed,
                 ins_at, sweeps_started, sweep_log>>
  /\ UNCHANGED <<monikerVars, fsVars, logVars, scanVars, concVars>>

\* a slip: the live tablet's storage is copied out and not replaced
Sweep_Swap_Copy(s) ==
  /\ ~crashed
  /\ pc[s] = "sw_swap"
  /\ LET tab == AtSlot(tablets_, sw_i[s])
     IN /\ tab_data' = tab_data
        /\ swap_tablets' =
             [swap_tablets EXCEPT ![s][sw_i[s] + 1] = tab_data[tab]]
        /\ tab_mu' = [tab_mu EXCEPT ![tab] = 0]
  /\ sw_i' = [sw_i EXCEPT ![s] = @ + 1]
  /\ pc' = [pc EXCEPT ![s] = "sw_loop"]
  /\ UNCHANGED <<global_thread_count, thread_id, tablets_, mu_readers,
                 sweep_mu_, at_index, at_own, t, next, sw_into, sw_after, agg,
                 crashed, issued, handed, ins_at, sweeps_started, sweep_log>>
  /\ UNCHANGED <<monikerVars, fsVars, logVars, scanVars, concVars>>

\* Sweep, loop body: tab->Swap(swap_tablets[i]), both locks released, ++i
Sweep_Swap(s) ==
  /\ ~crashed
  /\ pc[s] = "sw_swap"
  /\ LET tab == AtSlot(tablets_, sw_i[s])
     IN /\ tab_data' = [tab_data EXCEPT ![tab] = swap_tablets[s][sw_i[s] + 1]]
        /\ swap_tablets' =
             [swap_tablets EXCEPT ![s][sw_i[s] + 1] = tab_data[tab]]
        /\ tab_mu' = [tab_mu EXCEPT ![tab] = 0]
  /\ sw_i' = [sw_i EXCEPT ![s] = @ + 1]
  /\ pc' = [pc EXCEPT ![s] = "sw_loop"]
  /\ UNCHANGED <<global_thread_count, thread_id, tablets_, mu_readers,
                 sweep_mu_, at_index, at_own, t, next, sw_into, sw_after, agg,
                 crashed, issued, handed, ins_at, sweeps_started, sweep_log>>
  /\ UNCHANGED <<monikerVars, fsVars, logVars, scanVars, concVars>>

\* Sweep: the loop ends and the shared lock is released
Sweep_End(s) ==
  /\ ~crashed
  /\ pc[s] = "sw_loop"
  /\ ~(sw_i[s] < Len(tablets_))
  /\ mu_readers' = mu_readers \ {s}
  /\ pc' = [pc EXCEPT ![s] = "sw_merge"]
  /\ UNCHANGED <<global_thread_count, thread_id, tablets_, tab_data, tab_mu,
                 sweep_mu_, at_index, at_own, t, next, sw_into, sw_after,
                 swap_tablets, sw_i, agg, crashed, issued, handed, ins_at,
                 sweeps_started, sweep_log>>
  /\ UNCHANGED <<monikerVars, fsVars, logVars, scanVars, concVars>>

\* a slip: the swapped tablets replace what the aggregated tablet held
Merge_Overwrite(into, scratch) ==
  UNION {scratch[k] : k \in 1 .. Len(scratch)}

RECURSIVE Merge(_, _)
\* for (auto& swap_tablet : swap_tablets) into.data_->merge(*swap_tablet.data_)
Merge(into, scratch) ==
  IF scratch = <<>> THEN into
  ELSE Merge(into \cup Head(scratch), Tail(scratch))

\* Sweep: merge the swapped tablets, drop them, release sweep_mu_, return
Sweep_Merge(s) ==
  /\ ~crashed
  /\ pc[s] = "sw_merge"
  /\ agg' = [agg EXCEPT ![sw_into[s]] = Merge(@, swap_tablets[s])]
  /\ swap_tablets' = [swap_tablets EXCEPT ![s] = <<>>]
  /\ sweep_mu_' = 0
  /\ sweep_log' = Append(sweep_log,
                         [into |-> sw_into[s], after |-> sw_after[s]])
  /\ pc' = [pc EXCEPT ![s] = "idle"]
  /\ UNCHANGED <<global_thread_count, thread_id, tablets_, tab_data, tab_mu,
                 mu_readers, at_index, at_own, t, next, sw_into, sw_after,
                 sw_i, crashed, issued, handed, ins_at, sweeps_started>>
  /\ UNCHANGED <<monikerVars, fsVars, logVars, scanVars, concVars>>

\* no token table, no moniker table: the tablet store on its own
MonikerUnused ==
  /\ id_ = 0
  /\ forward_ = {}
  /\ reverse_ = <<>>
  /\ nodes = <<>>
  /\ id_to_terminal_ = <<>>
  /\ root_node_id_ = 0
  /\ tt_calls = <<>>
  /\ inserts = 0
  /\ op = [name |-> "none"]

\* the steps of the threads that add inodes
WorkerSteps ==
  \/ \E w \in Workers : GetTabletForThisThread(w)
  \/ \E w \in Threads : At_Read(w)
  \/ \E w \in Threads : At_Write(w)
  \/ \E w \in Workers : Insert_Lock(w)
  \/ \E w \in Workers : Insert_Emplace(w)

\* the steps of Tablets::Sweep once thread s has called it
SweepSteps(s) ==
  \/ Sweep_Lock(s)
  \/ Sweep_Count(s)
  \/ Sweep_Begin(s)
  \/ Sweep_TabLock(s)
  \/ Sweep_Swap(s)
  \/ Sweep_End(s)
  \/ Sweep_Merge(s)

\* one thread sweeps, as in the tests, into a new aggregated tablet or into
\* one an earlier sweep went into
TabletNext ==
  \/ WorkerSteps
  \/ \E into \in 1 .. (Len(agg) + 1) : Sweep_Call(Main, into)
  \/ SweepSteps(Main)

InitTablets ==
  /\ TabletInit /\ MonikerUnused /\ FsInit
  /\ LogUnused /\ ScanUnused /\ ConcUnused

\* workers adding inodes while the main thread sweeps
SpecTablets == InitTablets /\ [][TabletNext]_vars

SlotsNext ==
  \/ TabletNext
  \/ \E s \in {Main} : \E index \in 0 .. MaxIndex : At_Call(s, index)

\* the same, with the main thread also calling At on arbitrary slots
SpecSlots == InitTablets /\ [][SlotsNext]_vars

\* the threads that call Tablets::At in SpecAt
AtCallers == Workers \cup {Main}

AtNext ==
  \/ \E w \in AtCallers : \E index \in 0 .. MaxIndex : At_Call(w, index)
  \/ \E w \in AtCallers : At_Read(w)
  \/ \E w \in AtCallers : At_Write(w)

\* threads calling Tablets::At on arbitrary slots, and nothing else
SpecAt == InitTablets /\ [][AtNext]_vars

\* each of two threads calls Sweep once, into an aggregated tablet of its own
SweepsNext ==
  \/ WorkerSteps
  \/ \E s \in Sweepers : sw_into[s] = 0 /\ Sweep_Call(s, Len(agg) + 1)
  \/ \E s \in Sweepers : SweepSteps(s)

\* workers adding inodes while two threads sweep
SpecSweeps == InitTablets /\ [][SweepsNext]_vars

\* the steps thread th takes by itself once it is in a call
ThreadSteps(th) ==
  \/ At_Read(th)
  \/ At_Write(th)
  \/ Insert_Lock(th)
  \/ Insert_Emplace(th)
  \/ SweepSteps(th)

\* the same under fair scheduling: a thread that can go on does
SpecSweepsFair ==
  /\ InitTablets
  /\ [][SweepsNext]_vars
  /\ \A th \in Threads : WF_vars(ThreadSteps(th))

(***************************************************************************)
(* Token table                                                             *)
(***************************************************************************)

\* a std::string is a sequence of characters
Letters == {"a"}
kPathSeparatorChar == "/"

RECURSIVE StringsOver(_, _)
\* the strings over alphabet of at most n characters
StringsOver(alphabet, n) ==
  IF n = 0 THEN {<<>>}
  ELSE LET shorter == StringsOver(alphabet, n - 1)
       IN shorter \cup {Append(x, c) : x \in shorter, c \in alphabet}

\* the strings TEST_F(MonikerTest, TokenTable) hands to GetOrInsert
TokenStrings == {<<"f", "o", "o">>, <<"b", "a", "r">>, <<"b", "a", "z">>}

\* std::optional<std::string>, and the exception vector::at throws
None == [kind |-> "none", value |-> <<>>]
Some(x) == [kind |-> "some", value |-> x]
OutOfRange == [kind |-> "throw", value |-> <<>>]

\* Token::Token(value, position)
Token(value, position) == [value |-> value, position |-> position]

\* a slip: Token::Eq also compares the position
ForwardFind_ByPosition(fwd, tok) ==
  {x \in fwd : x.value = tok.value /\ x.position = tok.position}

\* forward_.insert finds an equal element: AbslHashValue and Token::Eq go by
\* value_ alone
ForwardFind(fwd, tok) == {x \in fwd : x.value = tok.value}

\* a slip: the ID of a duplicate is not reclaimed
GetOrInsert_NoReclaim(tab, token) ==
  LET id == tab.id_
      found == ForwardFind(tab.forward_, Token(token, id))
  IN IF found = {}
       THEN [tab |-> [id_ |-> id + 1,
                      forward_ |-> tab.forward_ \cup {Token(token, id)},
                      reverse_ |-> Append(tab.reverse_, Token(token, id))],
             first |-> id, second |-> TRUE]
       ELSE [tab |-> [id_ |-> id + 1,
                      forward_ |-> tab.forward_,
                      reverse_ |-> tab.reverse_],
             first |-> (CHOOSE x \in found : TRUE).position,
             second |-> FALSE]

\* TokenTable::GetOrInsert on the table tab = [id_, forward_, reverse_], the
\* whole call under mu_: the table afterwards and the pair returned
GetOrInsert(tab, token) ==
  LET id == tab.id_
      found == ForwardFind(tab.forward_, Token(token, id))
  IN IF found = {}
       THEN [tab |-> [id_ |-> id + 1,
                      forward_ |-> tab.forward_ \cup {Token(token, id)},
                      reverse_ |-> Append(tab.reverse_, Token(token, id))],
             first |-> id, second |-> TRUE]
       ELSE [tab |-> [id_ |-> (id + 1) - 1,
                      forward_ |-> tab.forward_,
                      reverse_ |-> tab.reverse_],
             first |-> (CHOOSE x \in found : TRUE).position,
             second |-> FALSE]

\* a slip: the reverse index is read one slot too far
ReverseLookup_Shifted(rev, id) ==
  IF Len(rev) < id + 1 THEN None
  ELSE IF id + 1 < Len(rev) THEN Some(rev[id + 2].value)
  ELSE OutOfRange

\* a slip: the last ID issued is taken for one past the end
ReverseLookup_Strict(rev, id) ==
  IF Len(rev) <= id + 1 THEN None
  ELSE Some(rev[id + 1].value)

\* TokenTable::ReverseLookup: `if (reverse_.size() < id) return nullopt`, then
\* reverse_.at(id), which throws std::out_of_range unless id < size()
ReverseLookup(rev, id) ==
  IF Len(rev) < id THEN None
  ELSE IF id < Len(rev) THEN Some(rev[id + 1].value)
  ELSE OutOfRange

\* TokenTable::TokenTable
TokenTableNew == [id_ |-> 0, forward_ |-> {}, reverse_ |-> <<>>]

TheTokens == [id_ |-> id_, forward_ |-> forward_, reverse_ |-> reverse_]

\* a TokenTable of its own, as in TEST_F(MonikerTest, TokenTable)
InitTokens ==
  /\ TabletInit
  /\ FsInit
  /\ LogUnused
  /\ ScanUnused
  /\ ConcUnused
  /\ id_ = TokenTableNew.id_
  /\ forward_ = TokenTableNew.forward_
  /\ reverse_ = TokenTableNew.reverse_
  /\ nodes = <<>>
  /\ id_to_terminal_ = <<>>
  /\ root_node_id_ = 0
  /\ tt_calls = <<>>
  /\ inserts = 0
  /\ op = [name |-> "none"]

\* a call of TokenTable::GetOrInsert(token)
TokenTable_GetOrInsert(token) ==
  /\ Len(tt_calls) < MaxCalls
  /\ LET r == GetOrInsert(TheTokens, token)
     IN /\ id_' = r.tab.id_
        /\ forward_' = r.tab.forward_
        /\ reverse_' = r.tab.reverse_
        /\ tt_calls' = Append(tt_calls, [token |-> token, first |-> r.first,
                                         second |-> r.second])
        /\ op' = [name |-> "GetOrInsert", token |-> token,
                  first |-> r.first, second |-> r.second]
  /\ UNCHANGED <<nodes, id_to_terminal_, root_node_id_, inserts>>
  /\ UNCHANGED <<tabletVars, fsVars, logVars, scanVars, concVars>>

\* a call of TokenTable::ReverseLookup(id)
TokenTable_ReverseLookup(id) ==
  /\ op' = [name |-> "ReverseLookup", id |-> id,
            ret |-> ReverseLookup(reverse_, id)]
  /\ UNCHANGED <<id_, forward_, reverse_, nodes, id_to_terminal_,
                 root_node_id_, tt_calls, inserts>>
  /\ UNCHANGED <<tabletVars, fsVars, logVars, scanVars, concVars>>

TokensNext ==
  \/ \E token \in TokenStrings : TokenTable_GetOrInsert(token)
  \/ \E id \in 0 .. (MaxCalls + 1) : TokenTable_ReverseLookup(id)

SpecTokens == InitTokens /\ [][TokensNext]_vars

(***************************************************************************)
(* Token table: threads inside GetOrInsert and ReverseLookup               *)
(***************************************************************************)

\* a slip: the lock is taken whoever holds it
CanLock_Always(mu) == TRUE

\* a slip: the shared lock is taken while a writer holds the mutex
CanReaderLock_Always(mu) == TRUE

\* absl::Mutex: Lock() waits for the writer and the readers to leave,
\* ReaderLock() for the writer
CanLock(mu) == mu.writer = 0 /\ mu.readers = {}
CanReaderLock(mu) == mu.writer = 0

\* thread th sets its pc and its locals
Goes(th, to, loc) ==
  /\ c_pc' = [c_pc EXCEPT ![th] = to]
  /\ c_loc' = [c_loc EXCEPT ![th] = loc]

\* GetOrInsert(token) is called: absl::MutexLock{&mu_}
GetOrInsert_Lock(th, token) ==
  /\ c_pc[th] = "idle"
  /\ c_calls < MaxCalls
  /\ CanLock(tok_mu)
  /\ tok_mu' = [tok_mu EXCEPT !.writer = th]
  /\ Goes(th, "goi_inc", [token |-> token, id |-> 0, inserted |-> FALSE])
  /\ c_calls' = c_calls + 1
  /\ UNCHANGED <<node_mu, table_mu, c_log>>
  /\ UNCHANGED <<monikerVars, tabletVars, fsVars, logVars, scanVars>>

\* GetOrInsert: uint64_t id = id_++
GetOrInsert_Inc(th) ==
  /\ c_pc[th] = "goi_inc"
  /\ id_' = id_ + 1
  /\ Goes(th, "goi_insert", [c_loc[th] EXCEPT !.id = id_])
  /\ UNCHANGED <<forward_, reverse_, nodes, id_to_terminal_, root_node_id_,
                 tt_calls, inserts, op>>
  /\ UNCHANGED <<tok_mu, node_mu, table_mu, c_calls, c_log>>
  /\ UNCHANGED <<tabletVars, fsVars, logVars, scanVars>>

\* GetOrInsert: forward_.insert(Token{token, id})
GetOrInsert_Insert(th) ==
  /\ c_pc[th] = "goi_insert"
  /\ LET tok == Token(c_loc[th].token, c_loc[th].id)
         found == ForwardFind(forward_, tok)
     IN /\ forward_' = IF found = {} THEN forward_ \cup {tok} ELSE forward_
        /\ Goes(th, "goi_branch", [c_loc[th] EXCEPT !.inserted = found = {}])
  /\ UNCHANGED <<id_, reverse_, nodes, id_to_terminal_, root_node_id_,
                 tt_calls, inserts, op>>
  /\ UNCHANGED <<tok_mu, node_mu, table_mu, c_calls, c_log>>
  /\ UNCHANGED <<tabletVars, fsVars, logVars, scanVars>>

\* GetOrInsert: reverse_.emplace_back(&*result.first) if inserted, else
\* id = result.first->Position() and --id_
GetOrInsert_Branch(th) ==
  /\ c_pc[th] = "goi_branch"
  /\ LET tok == Token(c_loc[th].token, c_loc[th].id)
     IN IF c_loc[th].inserted
          THEN /\ reverse_' = Append(reverse_, tok)
               /\ Goes(th, "goi_ret", c_loc[th])
               /\ UNCHANGED id_
          ELSE /\ id_' = id_ - 1
               /\ Goes(th, "goi_ret",
                       [c_loc[th] EXCEPT
                          !.id = (CHOOSE x \in ForwardFind(forward_, tok) :
                                    TRUE).position])
               /\ UNCHANGED reverse_
  /\ UNCHANGED <<forward_, nodes, id_to_terminal_, root_node_id_, tt_calls,
                 inserts, op>>
  /\ UNCHANGED <<tok_mu, node_mu, table_mu, c_calls, c_log>>
  /\ UNCHANGED <<tabletVars, fsVars, logVars, scanVars>>

\* GetOrInsert: return std::make_pair(id, inserted); the lock is released
GetOrInsert_Return(th) ==
  /\ c_pc[th] = "goi_ret"
  /\ tok_mu' = IF tok_mu.writer = th THEN [tok_mu EXCEPT !.writer = 0]
               ELSE tok_mu
  /\ tt_calls' = Append(tt_calls, [token |-> c_loc[th].token,
                                   first |-> c_loc[th].id,
                                   second |-> c_loc[th].inserted,
                                   by |-> th])
  /\ Goes(th, "idle", <<>>)
  /\ UNCHANGED <<id_, forward_, reverse_, nodes, id_to_terminal_,
                 root_node_id_, inserts, op>>
  /\ UNCHANGED <<node_mu, table_mu, c_calls, c_log>>
  /\ UNCHANGED <<tabletVars, fsVars, logVars, scanVars>>

\* ReverseLookup(id) is called: ReaderMutexLock{&mu_}
ReverseLookup_Lock(th, id) ==
  /\ c_pc[th] = "idle"
  /\ c_calls < MaxCalls
  /\ CanReaderLock(tok_mu)
  /\ tok_mu' = [tok_mu EXCEPT !.readers = @ \cup {th}]
  /\ Goes(th, "rl_read", [id |-> id, ret |-> None])
  /\ c_calls' = c_calls + 1
  /\ UNCHANGED <<node_mu, table_mu, c_log>>
  /\ UNCHANGED <<monikerVars, tabletVars, fsVars, logVars, scanVars>>

\* ReverseLookup: the size test and reverse_.at(id)->Value()
ReverseLookup_Read(th) ==
  /\ c_pc[th] = "rl_read"
  /\ Goes(th, "rl_ret",
          [c_loc[th] EXCEPT !.ret = ReverseLookup(reverse_, c_loc[th].id)])
  /\ UNCHANGED <<tok_mu, node_mu, table_mu, c_calls, c_log>>
  /\ UNCHANGED <<monikerVars, tabletVars, fsVars, logVars, scanVars>>

\* ReverseLookup returns or throws; the lock is released on both ways out
ReverseLookup_Return(th) ==
  /\ c_pc[th] = "rl_ret"
  /\ tok_mu' = [tok_mu EXCEPT !.readers = @ \ {th}]
  /\ op' = [name |-> "ReverseLookup", id |-> c_loc[th].id,
            ret |-> c_loc[th].ret]
  /\ Goes(th, "idle", <<>>)
  /\ UNCHANGED <<id_, forward_, reverse_, nodes, id_to_terminal_,
                 root_node_id_, tt_calls, inserts>>
  /\ UNCHANGED <<node_mu, table_mu, c_calls, c_log>>
  /\ UNCHANGED <<tabletVars, fsVars, logVars, scanVars>>

\* a TokenTable of its own with threads calling into it
InitTokensConc ==
  /\ TabletInit /\ FsInit /\ LogUnused /\ ScanUnused
  /\ id_ = TokenTableNew.id_
  /\ forward_ = TokenTableNew.forward_
  /\ reverse_ = TokenTableNew.reverse_
  /\ nodes = <<>>
  /\ id_to_terminal_ = <<>>
  /\ root_node_id_ = 0
  /\ tt_calls = <<>>
  /\ inserts = 0
  /\ op = [name |-> "none"]
  /\ node_mu = <<>>
  /\ ConcStart

TokensConcNext ==
  \/ \E th \in Workers : \E token \in TokenStrings :
       GetOrInsert_Lock(th, token)
  \/ \E th \in Workers : GetOrInsert_Inc(th)
  \/ \E th \in Workers : GetOrInsert_Insert(th)
  \/ \E th \in Workers : GetOrInsert_Branch(th)
  \/ \E th \in Workers : GetOrInsert_Return(th)
  \/ \E th \in Workers : \E id \in 0 .. (Len(reverse_) + 1) :
       ReverseLookup_Lock(th, id)
  \/ \E th \in Workers : ReverseLookup_Read(th)
  \/ \E th \in Workers : ReverseLookup_Return(th)

\* threads calling GetOrInsert and ReverseLookup at the same time
SpecTokensConc == InitTokensConc /\ [][TokensConcNext]_vars

(***************************************************************************)
(* Moniker table                                                           *)
(***************************************************************************)

\* the paths handed to MonikerTable::Insert: letters and separators
Paths == StringsOver(Letters \cup {kPathSeparatorChar}, MaxPathLen)
Inodes == 0 .. MaxInode
\* the constructor's argument: 0 in TEST_F(MonikerTest, MonikerTable), the
\* source root's st_ino in FsContext::PopulateMonikerTable
RootNodeIds == {0, 1}
\* the path the constructor inserts for root_node_id
RootPath == <<"<", "r", "o", "o", "t", ">">>

\* the place of the first separator in str, 0 if it has none
FirstSeparator(str) ==
  IF \E k \in 1 .. Len(str) : str[k] = kPathSeparatorChar
    THEN CHOOSE k \in 1 .. Len(str) :
           /\ str[k] = kPathSeparatorChar
           /\ \A j \in 1 .. (k - 1) : str[j] # kPathSeparatorChar
    ELSE 0

RECURSIVE GetLines_KeepAll(_)
\* a slip: what is left after the last separator is dropped
GetLines_KeepAll(str) ==
  IF str = <<>> THEN <<>>
  ELSE LET k == FirstSeparator(str)
       IN IF k = 0 THEN <<>>
          ELSE <<SubSeq(str, 1, k - 1)>>
                 \o GetLines_KeepAll(SubSeq(str, k + 1, Len(str)))

RECURSIVE GetLines(_)
\* the components `while (std::getline(stream, component, '/'))` yields: each
\* call reads up to the next separator and consumes it, and fails at the end of
\* the stream
GetLines(str) ==
  IF str = <<>> THEN <<>>
  ELSE LET k == FirstSeparator(str)
       IN IF k = 0 THEN <<str>>
          ELSE <<SubSeq(str, 1, k - 1)>>
                 \o GetLines(SubSeq(str, k + 1, Len(str)))

RECURSIVE TokenizeFrom(_, _, _)
\* the loop of Tokenize over the components left: empty ones are skipped, the
\* others interned; the token table afterwards and the IDs
TokenizeFrom(tab, components, result) ==
  IF components = <<>> THEN [tab |-> tab, result |-> result]
  ELSE IF Head(components) = <<>>
    THEN TokenizeFrom(tab, Tail(components), result)
    ELSE LET r == GetOrInsert(tab, Head(components))
         IN TokenizeFrom(r.tab, Tail(components), Append(result, r.first))

\* MonikerTable::Tokenize(path)
Tokenize(tab, path) == TokenizeFrom(tab, GetLines(path), <<>>)

\* MonikerNode::MonikerNode(name, parent); children_ starts empty
MonikerNode(name, parent) ==
  [name |-> name, parent |-> parent, children |-> <<>>]

\* a slip: the child is created without looking for it first
NodeGet_AlwaysNew(ns, n, word) ==
  LET child == Len(ns) + 1
  IN [nodes |-> Append([ns EXCEPT ![n].children = (word :> child) @@ @],
                       MonikerNode(word, n)),
      node |-> child]

\* MonikerNode::Get(word) on node n of the trie ns: the child found by the
\* shared lookup, or the one try_emplace creates; the trie afterwards and the
\* child
NodeGet(ns, n, word) ==
  IF word \in DOMAIN ns[n].children
    THEN [nodes |-> ns, node |-> ns[n].children[word]]
    ELSE LET child == Len(ns) + 1
         IN [nodes |-> Append([ns EXCEPT ![n].children = (word :> child) @@ @],
                              MonikerNode(word, n)),
             node |-> child]

RECURSIVE Descend(_, _, _)
\* the loop of MonikerTable::Insert: node = node->Get(token) for every token
Descend(ns, n, tokens) ==
  IF tokens = <<>> THEN [nodes |-> ns, node |-> n]
  ELSE LET r == NodeGet(ns, n, Head(tokens))
       IN Descend(r.nodes, r.node, Tail(tokens))

RECURSIVE Path_ByName(_, _)
\* a slip: the root is recognised by its name 0 instead of its null parent
Path_ByName(ns, n) ==
  IF ns[n].name = 0 THEN <<>>
  ELSE <<ns[n].name>> \o Path_ByName(ns, ns[n].parent)

RECURSIVE Path(_, _)
\* MonikerNode::Path(): the names pushed from the node up to, and without, the
\* root; the top of the stack is the last element
Path(ns, n) ==
  IF ns[n].parent = 0 THEN <<>>
  ELSE <<ns[n].name>> \o Path(ns, ns[n].parent)

\* a slip: emplace reports an insertion although the key was there
TerminalEmplace_AlwaysTrue(terminal, id, node) ==
  [terminal |-> IF id \in DOMAIN terminal THEN terminal
                ELSE (id :> node) @@ terminal,
   second |-> TRUE]

\* id_to_terminal_.emplace(id, node): an entry with the key is left as it is
TerminalEmplace(terminal, id, node) ==
  [terminal |-> IF id \in DOMAIN terminal THEN terminal
                ELSE (id :> node) @@ terminal,
   second |-> id \notin DOMAIN terminal]

\* MonikerTable::Insert(id, path) on the table m = [tokens, nodes, terminal],
\* the whole call under mu_: the table afterwards and the value returned
TableInsert(m, id, path) ==
  LET tk == Tokenize(m.tokens, path)
      walk == Descend(m.nodes, 1, tk.result)
      e == TerminalEmplace(m.terminal, id, walk.node)
  IN [table |-> [tokens |-> tk.tab, nodes |-> walk.nodes,
                 terminal |-> e.terminal],
      ret |-> e.second]

RECURSIVE Render(_, _, _)
\* the loop of MonikerTable::Get over the stack: the top is looked up, appended
\* and popped, and a "/" follows unless the stack is empty
Render(rev, stack, result) ==
  IF stack = <<>> THEN Some(result)
  ELSE LET token == ReverseLookup(rev, stack[Len(stack)])
           rest == SubSeq(stack, 1, Len(stack) - 1)
       IN IF token.kind = "throw" THEN OutOfRange
          ELSE IF token.kind = "none" THEN None
          ELSE Render(rev, rest,
                      IF rest # <<>>
                        THEN result \o token.value \o <<kPathSeparatorChar>>
                        ELSE result \o token.value)

\* MonikerTable::Get(id, offset, fully_qualified); neither offset nor
\* fully_qualified is read
TableGet(m, id) ==
  IF id \notin DOMAIN m.terminal THEN None
  ELSE Render(m.tokens.reverse_, Path(m.nodes, m.terminal[id]), <<>>)

\* a slip: the index is emptied and root_.Clear() is left out
TableClear_KeepChildren(m) ==
  [tokens |-> m.tokens, nodes |-> m.nodes, terminal |-> <<>>]

\* MonikerTable::Clear(): the terminal index and the root's children go, and
\* with the children every node below the root
TableClear(m) ==
  [tokens |-> m.tokens,
   nodes |-> <<[m.nodes[1] EXCEPT !.children = <<>>]>>,
   terminal |-> <<>>]

\* MonikerTable::MonikerTable(root_node_id): root_(0, nullptr), an empty token
\* table and index, then Insert(root_node_id, "<root>")
TableNew(root_node_id) ==
  TableInsert([tokens |-> TokenTableNew,
               nodes |-> <<MonikerNode(0, 0)>>,
               terminal |-> <<>>],
              root_node_id, RootPath).table

TheTable ==
  [tokens |-> TheTokens, nodes |-> nodes, terminal |-> id_to_terminal_]

\* the variables of the table take the values of m
TableBecomes(m) ==
  /\ id_' = m.tokens.id_
  /\ forward_' = m.tokens.forward_
  /\ reverse_' = m.tokens.reverse_
  /\ nodes' = m.nodes
  /\ id_to_terminal_' = m.terminal

\* MonikerTable m{root_node_id}
InitMoniker ==
  /\ TabletInit
  /\ FsInit
  /\ LogUnused
  /\ ScanUnused
  /\ ConcUnused
  /\ root_node_id_ \in RootNodeIds
  /\ id_ = TableNew(root_node_id_).tokens.id_
  /\ forward_ = TableNew(root_node_id_).tokens.forward_
  /\ reverse_ = TableNew(root_node_id_).tokens.reverse_
  /\ nodes = TableNew(root_node_id_).nodes
  /\ id_to_terminal_ = TableNew(root_node_id_).terminal
  /\ tt_calls = <<>>
  /\ inserts = 0
  /\ op = [name |-> "none"]

\* a call of MonikerTable::Insert(id, path)
MonikerTable_Insert(id, path) ==
  /\ inserts < MaxInserts
  /\ LET r == TableInsert(TheTable, id, path)
     IN /\ TableBecomes(r.table)
        /\ op' = [name |-> "Insert", id |-> id, path |-> path,
                  had |-> id \in DOMAIN id_to_terminal_, ret |-> r.ret]
  /\ inserts' = inserts + 1
  /\ UNCHANGED <<root_node_id_, tt_calls>>
  /\ UNCHANGED <<tabletVars, fsVars, logVars, scanVars, concVars>>

\* a call of MonikerTable::Get(id, 0)
MonikerTable_Get(id) ==
  /\ op' = [name |-> "Get", id |-> id, ret |-> TableGet(TheTable, id)]
  /\ UNCHANGED <<id_, forward_, reverse_, nodes, id_to_terminal_,
                 root_node_id_, tt_calls, inserts>>
  /\ UNCHANGED <<tabletVars, fsVars, logVars, scanVars, concVars>>

\* a call of MonikerTable::Clear()
MonikerTable_Clear ==
  /\ TableBecomes(TableClear(TheTable))
  /\ op' = [name |-> "Clear"]
  /\ UNCHANGED <<root_node_id_, tt_calls, inserts>>
  /\ UNCHANGED <<tabletVars, fsVars, logVars, scanVars, concVars>>

MonikerNext ==
  \/ \E id \in Inodes : \E path \in Paths : MonikerTable_Insert(id, path)
  \/ \E id \in Inodes : MonikerTable_Get(id)
  \/ MonikerTable_Clear

SpecMoniker == InitMoniker /\ [][MonikerNext]_vars

(***************************************************************************)
(* A trie of MonikerNodes of its own                                       *)
(***************************************************************************)

\* the component IDs handed to MonikerNode::Get; 0 is also the root's name
Words == 0 .. MaxWord

\* auto root = std::make_unique<MonikerNode>(0, nullptr); op holds the node
\* the chain of Gets has reached and the words it was given
InitNode ==
  /\ TabletInit
  /\ FsInit
  /\ LogUnused
  /\ ScanUnused
  /\ ConcUnused
  /\ id_ = TokenTableNew.id_
  /\ forward_ = TokenTableNew.forward_
  /\ reverse_ = TokenTableNew.reverse_
  /\ nodes = <<MonikerNode(0, 0)>>
  /\ id_to_terminal_ = <<>>
  /\ root_node_id_ = 0
  /\ tt_calls = <<>>
  /\ inserts = 0
  /\ op = [name |-> "root", node |-> 1, words |-> <<>>]

\* node = node->Get(word), the next link of a chain root->Get(c1)->Get(c2)...
MonikerNode_Get(word) ==
  /\ inserts < MaxGets
  /\ LET r == NodeGet(nodes, op.node, word)
     IN /\ nodes' = r.nodes
        /\ op' = [name |-> "Get", node |-> r.node,
                  words |-> Append(op.words, word)]
  /\ inserts' = inserts + 1
  /\ UNCHANGED <<id_, forward_, reverse_, id_to_terminal_, root_node_id_,
                 tt_calls>>
  /\ UNCHANGED <<tabletVars, fsVars, logVars, scanVars, concVars>>

\* a new chain is started at the root of the same trie
MonikerNode_Root ==
  /\ op.name = "Get"
  /\ op' = [name |-> "root", node |-> 1, words |-> <<>>]
  /\ UNCHANGED <<id_, forward_, reverse_, nodes, id_to_terminal_,
                 root_node_id_, tt_calls, inserts>>
  /\ UNCHANGED <<tabletVars, fsVars, logVars, scanVars, concVars>>

NodeNext ==
  \/ \E word \in Words : MonikerNode_Get(word)
  \/ MonikerNode_Root

SpecNode == InitNode /\ [][NodeNext]_vars

(***************************************************************************)
(* Threads inside MonikerNode::Get on the nodes of one trie                *)
(* node_mu[n] is the mu_ of node n.                                        *)
(***************************************************************************)

\* a thread that holds a pointer to node n calls n->Get(word): every node of
\* the trie was returned by a Get or is the root
NodeGet_Call(th, n, word) ==
  /\ c_pc[th] = "idle"
  /\ c_calls < MaxCalls
  /\ Goes(th, "ng_reader", [node |-> n, word |-> word, ret |-> 0,
                            missed |-> FALSE])
  /\ c_calls' = c_calls + 1
  /\ UNCHANGED <<tok_mu, node_mu, table_mu, c_log>>
  /\ UNCHANGED <<monikerVars, tabletVars, fsVars, logVars, scanVars>>

\* auto reader = ReaderMutexLock{&mu_}
NodeGet_ReaderLock(th) ==
  /\ c_pc[th] = "ng_reader"
  /\ CanReaderLock(node_mu[c_loc[th].node])
  /\ node_mu' = [node_mu EXCEPT ![c_loc[th].node].readers = @ \cup {th}]
  /\ Goes(th, "ng_find", c_loc[th])
  /\ UNCHANGED <<tok_mu, table_mu, c_calls, c_log>>
  /\ UNCHANGED <<monikerVars, tabletVars, fsVars, logVars, scanVars>>

\* children_.find(word); the child is returned if it is there; the shared
\* lock is released at the end of the block either way
NodeGet_Find(th) ==
  /\ c_pc[th] = "ng_find"
  /\ LET n == c_loc[th].node
         word == c_loc[th].word
     IN /\ node_mu' = [node_mu EXCEPT ![n].readers = @ \ {th}]
        /\ IF word \in DOMAIN nodes[n].children
             THEN Goes(th, "ng_ret",
                       [c_loc[th] EXCEPT !.ret = nodes[n].children[word]])
             ELSE Goes(th, "ng_writer", [c_loc[th] EXCEPT !.missed = TRUE])
  /\ UNCHANGED <<tok_mu, table_mu, c_calls, c_log>>
  /\ UNCHANGED <<monikerVars, tabletVars, fsVars, logVars, scanVars>>

\* auto writer = absl::MutexLock{&mu_}
NodeGet_Lock(th) ==
  /\ c_pc[th] = "ng_writer"
  /\ CanLock(node_mu[c_loc[th].node])
  /\ node_mu' = [node_mu EXCEPT ![c_loc[th].node].writer = th]
  /\ Goes(th, "ng_emplace", c_loc[th])
  /\ UNCHANGED <<tok_mu, table_mu, c_calls, c_log>>
  /\ UNCHANGED <<monikerVars, tabletVars, fsVars, logVars, scanVars>>

\* children_.try_emplace(word, std::make_unique<MonikerNode>(word, this)): the
\* node made for the call is linked if word has no child, and destroyed with
\* the temporary if it has one; result.first is the child of word either way.
\* A new node comes with a mutex of its own.  The lock is released on return.
NodeGet_TryEmplace(th) ==
  /\ c_pc[th] = "ng_emplace"
  /\ LET n == c_loc[th].node
         r == NodeGet(nodes, n, c_loc[th].word)
         held == [node_mu EXCEPT ![n].writer = 0]
     IN /\ nodes' = r.nodes
        /\ node_mu' = IF Len(r.nodes) > Len(nodes)
                        THEN Append(held, Unlocked) ELSE held
        /\ Goes(th, "ng_ret", [c_loc[th] EXCEPT !.ret = r.node])
  /\ UNCHANGED <<id_, forward_, reverse_, id_to_terminal_, root_node_id_,
                 tt_calls, inserts, op>>
  /\ UNCHANGED <<tok_mu, table_mu, c_calls, c_log>>
  /\ UNCHANGED <<tabletVars, fsVars, logVars, scanVars>>

\* the caller has the node
NodeGet_Return(th) ==
  /\ c_pc[th] = "ng_ret"
  /\ c_log' = Append(c_log, [by |-> th, node |-> c_loc[th].node,
                             word |-> c_loc[th].word, ret |-> c_loc[th].ret,
                             missed |-> c_loc[th].missed])
  /\ Goes(th, "idle", <<>>)
  /\ UNCHANGED <<tok_mu, node_mu, table_mu, c_calls>>
  /\ UNCHANGED <<monikerVars, tabletVars, fsVars, logVars, scanVars>>

\* auto root = std::make_unique<MonikerNode>(0, nullptr), shared by the threads
InitNodeConc ==
  /\ TabletInit /\ FsInit /\ LogUnused /\ ScanUnused
  /\ id_ = TokenTableNew.id_
  /\ forward_ = TokenTableNew.forward_
  /\ reverse_ = TokenTableNew.reverse_
  /\ nodes = <<MonikerNode(0, 0)>>
  /\ id_to_terminal_ = <<>>
  /\ root_node_id_ = 0
  /\ tt_calls = <<>>
  /\ inserts = 0
  /\ op = [name |-> "none"]
  /\ node_mu = <<Unlocked>>
  /\ ConcStart

NodeConcNext ==
  \/ \E th \in Workers : \E n \in 1 .. Len(nodes) : \E word \in Words :
       NodeGet_Call(th, n, word)
  \/ \E th \in Workers : NodeGet_ReaderLock(th)
  \/ \E th \in Workers : NodeGet_Find(th)
  \/ \E th \in Workers : NodeGet_Lock(th)
  \/ \E th \in Workers : NodeGet_TryEmplace(th)
  \/ \E th \in Workers : NodeGet_Return(th)

\* threads calling Get on the nodes of one trie at the same time
SpecNodeConc == InitNodeConc /\ [][NodeConcNext]_vars

(***************************************************************************)
(* Threads inside MonikerTable::Insert and MonikerTable::Get               *)
(* table_mu is the mu_ of the table.  Tokenize, MonikerNode::Get and Path  *)
(* take the locks of the token table and of the nodes inside; they are     *)
(* single steps here.                                                      *)
(***************************************************************************)

\* the positions of a thread that is inside Insert
InInsert == {"mi_tokenize", "mi_get", "mi_emplace", "mi_ret"}

\* Insert(id, path) is called: auto lock = absl::MutexLock(&mu_)
MonikerInsert_Lock(th, id, path) ==
  /\ c_pc[th] = "idle"
  /\ inserts < MaxInserts
  /\ CanLock(table_mu)
  /\ table_mu' = [table_mu EXCEPT !.writer = th]
  /\ Goes(th, "mi_tokenize", [id |-> id, path |-> path, tokens |-> <<>>,
                              node |-> 1, ret |-> FALSE])
  /\ inserts' = inserts + 1
  /\ UNCHANGED <<id_, forward_, reverse_, nodes, id_to_terminal_,
                 root_node_id_, tt_calls, op>>
  /\ UNCHANGED <<tok_mu, node_mu, c_calls, c_log>>
  /\ UNCHANGED <<tabletVars, fsVars, logVars, scanVars>>

\* auto tokens = Tokenize(path); MonikerNode* node = &root_
MonikerInsert_Tokenize(th) ==
  /\ c_pc[th] = "mi_tokenize"
  /\ LET tk == Tokenize(TheTokens, c_loc[th].path)
     IN /\ id_' = tk.tab.id_
        /\ forward_' = tk.tab.forward_
        /\ reverse_' = tk.tab.reverse_
        /\ Goes(th, "mi_get", [c_loc[th] EXCEPT !.tokens = tk.result])
  /\ UNCHANGED <<nodes, id_to_terminal_, root_node_id_, tt_calls, inserts, op>>
  /\ UNCHANGED <<tok_mu, node_mu, table_mu, c_calls, c_log>>
  /\ UNCHANGED <<tabletVars, fsVars, logVars, scanVars>>

\* for (const auto token : tokens) node = node->Get(token): one turn of the
\* loop, or its end
MonikerInsert_Get(th) ==
  /\ c_pc[th] = "mi_get"
  /\ IF c_loc[th].tokens = <<>>
       THEN /\ Goes(th, "mi_emplace", c_loc[th])
            /\ UNCHANGED nodes
       ELSE LET r == NodeGet(nodes, c_loc[th].node, Head(c_loc[th].tokens))
            IN /\ nodes' = r.nodes
               /\ Goes(th, "mi_get",
                       [c_loc[th] EXCEPT !.node = r.node,
                                         !.tokens = Tail(c_loc[th].tokens)])
  /\ UNCHANGED <<id_, forward_, reverse_, id_to_terminal_, root_node_id_,
                 tt_calls, inserts, op>>
  /\ UNCHANGED <<tok_mu, node_mu, table_mu, c_calls, c_log>>
  /\ UNCHANGED <<tabletVars, fsVars, logVars, scanVars>>

\* std::tie(std::ignore, terminal_inserted) = id_to_terminal_.emplace(id, node)
MonikerInsert_Emplace(th) ==
  /\ c_pc[th] = "mi_emplace"
  /\ LET e == TerminalEmplace(id_to_terminal_, c_loc[th].id, c_loc[th].node)
     IN /\ id_to_terminal_' = e.terminal
        /\ Goes(th, "mi_ret", [c_loc[th] EXCEPT !.ret = e.second])
  /\ UNCHANGED <<id_, forward_, reverse_, nodes, root_node_id_, tt_calls,
                 inserts, op>>
  /\ UNCHANGED <<tok_mu, node_mu, table_mu, c_calls, c_log>>
  /\ UNCHANGED <<tabletVars, fsVars, logVars, scanVars>>

\* return terminal_inserted; the lock is released
MonikerInsert_Return(th) ==
  /\ c_pc[th] = "mi_ret"
  /\ table_mu' = [table_mu EXCEPT !.writer = 0]
  /\ c_log' = Append(c_log, [by |-> th, id |-> c_loc[th].id,
                             path |-> c_loc[th].path, ret |-> c_loc[th].ret])
  /\ Goes(th, "idle", <<>>)
  /\ UNCHANGED <<tok_mu, node_mu, c_calls>>
  /\ UNCHANGED <<monikerVars, tabletVars, fsVars, logVars, scanVars>>

\* Get(id, 0) is called; overlap: another thread is inside Insert(id, ...)
MonikerGet_Call(th, id) ==
  /\ c_pc[th] = "idle"
  /\ Goes(th, "mg_lock",
          [id |-> id, snap |-> None, stack |-> <<>>, ret |-> None,
           overlap |-> \E w \in Workers \ {th} :
                         c_pc[w] \in InInsert /\ c_loc[w].id = id])
  /\ UNCHANGED <<tok_mu, node_mu, table_mu, c_calls, c_log>>
  /\ UNCHANGED <<monikerVars, tabletVars, fsVars, logVars, scanVars>>

\* auto lock = ReaderMutexLock(&mu_); snap: what Get(id) gives on the table as
\* it is when the lock is taken
MonikerGet_ReaderLock(th) ==
  /\ c_pc[th] = "mg_lock"
  /\ CanReaderLock(table_mu)
  /\ table_mu' = [table_mu EXCEPT !.readers = @ \cup {th}]
  /\ Goes(th, "mg_find",
          [c_loc[th] EXCEPT !.snap = TableGet(TheTable, c_loc[th].id)])
  /\ UNCHANGED <<tok_mu, node_mu, c_calls, c_log>>
  /\ UNCHANGED <<monikerVars, tabletVars, fsVars, logVars, scanVars>>

\* id_to_terminal_.find(id), then node->Path().  A find that runs while another
\* thread is at emplace on the same map is a data race: it may miss, or yield
\* any node.
MonikerGet_Find(th) ==
  /\ c_pc[th] = "mg_find"
  /\ LET id == c_loc[th].id
         racing == \E w \in Workers \ {th} : c_pc[w] = "mi_emplace"
         found == IF racing THEN 0 .. Len(nodes)
                  ELSE IF id \in DOMAIN id_to_terminal_
                    THEN {id_to_terminal_[id]} ELSE {0}
     IN \E node \in found :
          IF node = 0
            THEN Goes(th, "mg_ret", [c_loc[th] EXCEPT !.ret = None])
            ELSE Goes(th, "mg_render",
                      [c_loc[th] EXCEPT !.stack = Path(nodes, node)])
  /\ UNCHANGED <<tok_mu, node_mu, table_mu, c_calls, c_log>>
  /\ UNCHANGED <<monikerVars, tabletVars, fsVars, logVars, scanVars>>

\* while (!stack.empty()): the components are looked up and joined
MonikerGet_Render(th) ==
  /\ c_pc[th] = "mg_render"
  /\ Goes(th, "mg_ret",
          [c_loc[th] EXCEPT !.ret = Render(reverse_, c_loc[th].stack, <<>>)])
  /\ UNCHANGED <<tok_mu, node_mu, table_mu, c_calls, c_log>>
  /\ UNCHANGED <<monikerVars, tabletVars, fsVars, logVars, scanVars>>

\* return result, or std::nullopt; the lock is released
MonikerGet_Return(th) ==
  /\ c_pc[th] = "mg_ret"
  /\ table_mu' = [table_mu EXCEPT !.readers = @ \ {th}]
  /\ Goes(th, "idle", <<>>)
  /\ UNCHANGED <<tok_mu, node_mu, c_calls, c_log>>
  /\ UNCHANGED <<monikerVars, tabletVars, fsVars, logVars, scanVars>>

\* MonikerTable m{root_node_id}, shared by the threads
InitTableConc ==
  /\ TabletInit /\ FsInit /\ LogUnused /\ ScanUnused
  /\ root_node_id_ \in RootNodeIds
  /\ id_ = TableNew(root_node_id_).tokens.id_
  /\ forward_ = TableNew(root_node_id_).tokens.forward_
  /\ reverse_ = TableNew(root_node_id_).tokens.reverse_
  /\ nodes = TableNew(root_node_id_).nodes
  /\ id_to_terminal_ = TableNew(root_node_id_).terminal
  /\ tt_calls = <<>>
  /\ inserts = 0
  /\ op = [name |-> "none"]
  /\ node_mu = <<>>
  /\ ConcStart

TableConcNext ==
  \/ \E th \in Workers : \E id \in Inodes : \E path \in Paths :
       MonikerInsert_Lock(th, id, path)
  \/ \E th \in Workers : MonikerInsert_Tokenize(th)
  \/ \E th \in Workers : MonikerInsert_Get(th)
  \/ \E th \in Workers : MonikerInsert_Emplace(th)
  \/ \E th \in Workers : MonikerInsert_Return(th)
  \/ \E th \in Workers : \E id \in Inodes : MonikerGet_Call(th, id)
  \/ \E th \in Workers : MonikerGet_ReaderLock(th)
  \/ \E th \in Workers : MonikerGet_Find(th)
  \/ \E th \in Workers : MonikerGet_Render(th)
  \/ \E th \in Workers : MonikerGet_Return(th)

\* threads calling Insert and Get on one table at the same time
SpecTableConc == InitTableConc /\ [][TableConcNext]_vars

(***************************************************************************)
(* Inode registry: do_lookup, sfs_link, forget_one                         *)
(* A handle is the address of a record; fs_recs keeps every record ever    *)
(* allocated at an address of its own, the erased ones with live = FALSE   *)
(* and the bytes they had.  A descriptor is named by the openat call that  *)
(* returned it; all are positive, 0 to 2 being the standard streams.       *)
(* Context::Add, which do_lookup calls to record the inode, acts on the    *)
(* tablet store and the moniker table only.                                *)
(***************************************************************************)

\* Inode(): fd{-1}, src_dev{0}, src_ino{0}, nlookup{0}
InodeNew == [fd |-> -1, src_dev |-> 0, src_ino |-> 0, nlookup |-> 0,
             live |-> TRUE]

\* the SrcId a record was installed for
RecKey(h) == <<fs_recs[h].src_ino, fs_recs[h].src_dev>>

\* the record at address h has been erased
Freed(h) == ~fs_recs[h].live

\* close(fd)
Close(tab, fd) == [tab EXCEPT ![fd].closes = @ + 1]

\* a slip: the check of the device is left out
RejectCode_NoDevice(id) ==
  IF id[1] = FUSE_ROOT_ID THEN "EIO" ELSE "ok"

\* do_lookup: the two checks of what fstatat reported
RejectCode(id) ==
  IF id[2] # SrcDev THEN "ENOTSUP"
  ELSE IF id[1] = FUSE_ROOT_ID THEN "EIO"
  ELSE "ok"

\* a slip: the comparison is turned around
ForgetFatal_Reversed(n, nlookup) == n < nlookup

\* forget_one: `if (n > inode.nlookup) LOG(FATAL)`
ForgetFatal(n, nlookup) == n > nlookup

\* inode.nlookup -= n on a uint64_t
NlookupAfter(nlookup, n) == (nlookup - n) % SizeModulus

\* fs.inodes.erase(key): the map without the key
EraseKey(m, key) == [k \in DOMAIN m \ {key} |-> m[k]]

\* the upcall of thread th is over: its locals go, ret is what it returned
FsDone(th, ret) ==
  /\ fs_pc' = [fs_pc EXCEPT ![th] = "idle"]
  /\ fs_loc' = [fs_loc EXCEPT ![th] = NoLoc]
  /\ fs_ret' = [fs_ret EXCEPT ![th] = ret]

\* what openat and fstatat do for a lookup: open fails, stat fails, or stat
\* reports the SrcId id
LookupInputs ==
  {[res |-> r, id |-> <<0, 0>>] : r \in {"open_fail", "stat_fail"}}
    \cup {[res |-> "ok", id |-> k] : k \in Targets}

\* the upcalls that end in do_lookup: sfs_lookup, mknod_symlink and sfs_create
\* reply its entry; sfs_do_readdir with plus set calls forget_one(e.ino, 1)
\* when the entry does not fit the buffer any more
LookupCauses == {"lookup", "readdirplus_full"}

\* do_lookup up to the registry: openat, fstatat, the two checks.  The two
\* rejections return without close(newfd).
do_lookup_Open(th, in, cause) ==
  /\ fs_fault = "none"
  /\ fs_pc[th] = "idle"
  /\ fs_ops < MaxFsOps
  /\ fs_ops' = fs_ops + 1
  /\ LET newfd == Len(fd_tab) + 1
         opened == Append(fd_tab, [closes |-> 0, id |-> in.id])
     IN IF in.res = "open_fail"
          THEN /\ FsDone(th, [name |-> "lookup", err |-> "errno", h |-> 0])
               /\ UNCHANGED fd_tab
        ELSE IF in.res = "stat_fail"
          THEN /\ FsDone(th, [name |-> "lookup", err |-> "errno", h |-> 0])
               /\ fd_tab' = Close(opened, newfd)
        ELSE IF RejectCode(in.id) # "ok"
          THEN /\ FsDone(th, [name |-> "lookup", err |-> RejectCode(in.id),
                              h |-> 0])
               /\ fd_tab' = opened
        ELSE /\ fd_tab' = opened
             /\ fs_pc' = [fs_pc EXCEPT ![th] = "lk_find"]
             /\ fs_loc' = [fs_loc EXCEPT ![th] =
                             [id |-> in.id, newfd |-> newfd, h |-> 0,
                              n |-> 0, cause |-> cause]]
             /\ UNCHANGED fs_ret
  /\ UNCHANGED <<fs_inodes, fs_recs, fs_mutex, inode_m, fs_fault, known,
                 looked, forgot>>
  /\ UNCHANGED <<tabletVars, monikerVars, logVars, scanVars, concVars>>

\* do_lookup: fs.mutex is taken and inode_p = &fs.inodes[id], which puts an
\* Inode() there when the key is new.  A record with fd != -1 was found:
\* fs.mutex is released; otherwise it is kept for the installation.
do_lookup_Find(th) ==
  /\ fs_fault = "none"
  /\ fs_pc[th] = "lk_find"
  /\ fs_mutex = 0
  /\ LET id == fs_loc[th].id
         h == IF id \in DOMAIN fs_inodes THEN fs_inodes[id]
              ELSE Len(fs_recs) + 1
     IN /\ fs_loc' = [fs_loc EXCEPT ![th].h = h]
        /\ IF id \in DOMAIN fs_inodes
             THEN UNCHANGED <<fs_inodes, fs_recs, inode_m, known>>
             ELSE /\ fs_inodes' = (id :> h) @@ fs_inodes
                  /\ fs_recs' = Append(fs_recs, InodeNew)
                  /\ inode_m' = Append(inode_m, 0)
                  /\ known' = Append(known, 0)
        /\ IF id \in DOMAIN fs_inodes /\ fs_recs[h].fd # -1
             THEN /\ fs_pc' = [fs_pc EXCEPT ![th] = "lk_inc"]
                  /\ UNCHANGED fs_mutex
             ELSE /\ fs_pc' = [fs_pc EXCEPT ![th] = "lk_new"]
                  /\ fs_mutex' = th
  /\ UNCHANGED <<fd_tab, fs_fault, fs_ret, looked, forgot, fs_ops>>
  /\ UNCHANGED <<tabletVars, monikerVars, logVars, scanVars, concVars>>

\* do_lookup returned 0 with e->ino = h: the caller replies the entry, and the
\* kernel holds one more lookup of h; or sfs_do_readdir goes on to
\* forget_one(e.ino, 1)
LookupReturn(th, h) ==
  IF fs_loc[th].cause = "lookup"
    THEN /\ FsDone(th, [name |-> "lookup", err |-> "ok", h |-> h])
         /\ known' = [known EXCEPT ![h] = @ + 1]
         /\ looked' = [looked EXCEPT ![fs_loc[th].id] = @ + 1]
    ELSE /\ fs_pc' = [fs_pc EXCEPT ![th] = "fg_call"]
         /\ fs_loc' = [fs_loc EXCEPT ![th].n = 1]
         /\ UNCHANGED <<fs_ret, known, looked>>

\* do_lookup, no existing inode: lock_guard<mutex> g{inode.m} with fs.mutex
\* still held
do_lookup_LockNew(th) ==
  /\ fs_fault = "none"
  /\ fs_pc[th] = "lk_new"
  /\ inode_m[fs_loc[th].h] = 0
  /\ inode_m' = [inode_m EXCEPT ![fs_loc[th].h] = th]
  /\ fs_pc' = [fs_pc EXCEPT ![th] = "lk_install"]
  /\ UNCHANGED <<fs_inodes, fs_recs, fs_mutex, fd_tab, fs_loc, fs_fault,
                 fs_ret, known, looked, forgot, fs_ops>>
  /\ UNCHANGED <<tabletVars, monikerVars, logVars, scanVars, concVars>>

\* do_lookup, no existing inode: under inode.m the fields are set, the record
\* takes newfd, and fs.mutex and then inode.m are released
do_lookup_Install(th) ==
  /\ fs_fault = "none"
  /\ fs_pc[th] = "lk_install"
  /\ LET h == fs_loc[th].h
     IN /\ inode_m[h] = th
        /\ inode_m' = [inode_m EXCEPT ![h] = 0]
        /\ fs_recs' = [fs_recs EXCEPT ![h].src_ino = fs_loc[th].id[1],
                                      ![h].src_dev = fs_loc[th].id[2],
                                      ![h].nlookup = 1,
                                      ![h].fd = fs_loc[th].newfd]
        /\ fs_mutex' = 0
        /\ LookupReturn(th, h)
  /\ UNCHANGED <<fs_inodes, fd_tab, fs_fault, forgot, fs_ops>>
  /\ UNCHANGED <<tabletVars, monikerVars, logVars, scanVars, concVars>>

\* do_lookup, found existing inode: under inode.m, which is taken after
\* fs.mutex was released, nlookup++ and close(newfd)
do_lookup_Inc(th) ==
  /\ fs_fault = "none"
  /\ fs_pc[th] = "lk_inc"
  /\ LET h == fs_loc[th].h
     IN /\ inode_m[h] = 0
        /\ fs_recs' = [fs_recs EXCEPT ![h].nlookup = (@ + 1) % SizeModulus]
        /\ fd_tab' = Close(fd_tab, fs_loc[th].newfd)
        /\ LookupReturn(th, h)
  /\ UNCHANGED <<fs_inodes, fs_mutex, inode_m, fs_fault, forgot, fs_ops>>
  /\ UNCHANGED <<tabletVars, monikerVars, logVars, scanVars, concVars>>

\* a thread is in sfs_link for the record at address h
LinkInFlight(h) ==
  \E th \in FsThreads : fs_pc[th] = "ln_inc" /\ fs_loc[th].h = h

\* sfs_link(ino = h, ...): get_inode(ino), then linkat and fstatat, which are
\* taken to succeed.  The kernel links an inode it holds lookups of.
sfs_link_Call(th, h) ==
  /\ fs_fault = "none"
  /\ fs_pc[th] = "idle"
  /\ fs_ops < MaxFsOps
  /\ known[h] > 0
  /\ fs_ops' = fs_ops + 1
  /\ IF fs_recs[h].fd = -1
       THEN /\ fs_fault' = "fatal"
            /\ UNCHANGED <<fs_pc, fs_loc>>
       ELSE /\ fs_pc' = [fs_pc EXCEPT ![th] = "ln_inc"]
            /\ fs_loc' = [fs_loc EXCEPT ![th] =
                            [id |-> RecKey(h), newfd |-> 0, h |-> h,
                             n |-> 0, cause |-> "link"]]
            /\ UNCHANGED fs_fault
  /\ UNCHANGED <<fs_inodes, fs_recs, fs_mutex, inode_m, fd_tab, fs_ret,
                 known, looked, forgot>>
  /\ UNCHANGED <<tabletVars, monikerVars, logVars, scanVars, concVars>>

\* sfs_link: under inode.m, nlookup++; the entry is replied
sfs_link_Inc(th) ==
  /\ fs_fault = "none"
  /\ fs_pc[th] = "ln_inc"
  /\ LET h == fs_loc[th].h
     IN /\ inode_m[h] = 0
        /\ fs_recs' = [fs_recs EXCEPT ![h].nlookup = (@ + 1) % SizeModulus]
        /\ known' = [known EXCEPT ![h] = @ + 1]
        /\ looked' = [looked EXCEPT ![fs_loc[th].id] = @ + 1]
        /\ FsDone(th, [name |-> "link", err |-> "ok", h |-> h])
  /\ UNCHANGED <<fs_inodes, fs_mutex, inode_m, fd_tab, fs_fault, forgot,
                 fs_ops>>
  /\ UNCHANGED <<tabletVars, monikerVars, logVars, scanVars, concVars>>

\* the kernel delivers forget(h, n): sfs_forget, or one element of the batch
\* of sfs_forget_multi, enters forget_one.  It gives back lookups it holds,
\* each once, and not the last of an inode that a link in flight pins.
sfs_forget(th, h, n) ==
  /\ fs_fault = "none"
  /\ fs_pc[th] = "idle"
  /\ fs_ops < MaxFsOps
  /\ n <= known[h]
  /\ LinkInFlight(h) => n < known[h]
  /\ fs_ops' = fs_ops + 1
  /\ known' = [known EXCEPT ![h] = @ - n]
  /\ forgot' = [forgot EXCEPT ![RecKey(h)] = @ + n]
  /\ fs_pc' = [fs_pc EXCEPT ![th] = "fg_call"]
  /\ fs_loc' = [fs_loc EXCEPT ![th] =
                  [id |-> RecKey(h), newfd |-> 0, h |-> h, n |-> n,
                   cause |-> "forget"]]
  /\ UNCHANGED <<fs_inodes, fs_recs, fs_mutex, inode_m, fd_tab, fs_fault,
                 fs_ret, looked>>
  /\ UNCHANGED <<tabletVars, monikerVars, logVars, scanVars, concVars>>

\* a forget of any record's address with any count, whatever the kernel
\* holds: what forget_one does when its caller is not the kernel described
\* above
sfs_forget_Any(th, h, n) ==
  /\ fs_fault = "none"
  /\ fs_pc[th] = "idle"
  /\ fs_ops < MaxFsOps
  /\ fs_ops' = fs_ops + 1
  /\ fs_pc' = [fs_pc EXCEPT ![th] = "fg_call"]
  /\ fs_loc' = [fs_loc EXCEPT ![th] =
                  [id |-> RecKey(h), newfd |-> 0, h |-> h, n |-> n,
                   cause |-> "forget_any"]]
  /\ UNCHANGED <<fs_inodes, fs_recs, fs_mutex, inode_m, fd_tab, fs_fault,
                 fs_ret, known, looked, forgot>>
  /\ UNCHANGED <<tabletVars, monikerVars, logVars, scanVars, concVars>>

\* forget_one: get_inode(ino), which is fatal when the fd stored is -1
forget_one_GetInode(th) ==
  /\ fs_fault = "none"
  /\ fs_pc[th] = "fg_call"
  /\ IF fs_recs[fs_loc[th].h].fd = -1
       THEN /\ fs_fault' = "fatal"
            /\ UNCHANGED fs_pc
       ELSE /\ fs_pc' = [fs_pc EXCEPT ![th] = "fg_dec"]
            /\ UNCHANGED fs_fault
  /\ UNCHANGED <<fs_inodes, fs_recs, fs_mutex, inode_m, fd_tab, fs_loc,
                 fs_ret, known, looked, forgot, fs_ops>>
  /\ UNCHANGED <<tabletVars, monikerVars, logVars, scanVars, concVars>>

\* forget_one: inode.m is taken; n > nlookup is fatal; nlookup -= n; when it
\* is 0 now the lock is kept for the erasure, otherwise the call is over
forget_one_Dec(th) ==
  /\ fs_fault = "none"
  /\ fs_pc[th] = "fg_dec"
  /\ LET h == fs_loc[th].h
         after == NlookupAfter(fs_recs[h].nlookup, fs_loc[th].n)
     IN /\ inode_m[h] = 0
        /\ IF ForgetFatal(fs_loc[th].n, fs_recs[h].nlookup)
             THEN /\ fs_fault' = "fatal"
                  /\ UNCHANGED <<fs_recs, inode_m, fs_pc, fs_loc, fs_ret>>
             ELSE /\ fs_recs' = [fs_recs EXCEPT ![h].nlookup = after]
                  /\ UNCHANGED fs_fault
                  /\ IF after = 0
                       THEN /\ inode_m' = [inode_m EXCEPT ![h] = th]
                            /\ fs_pc' = [fs_pc EXCEPT ![th] = "fg_fs"]
                            /\ UNCHANGED <<fs_loc, fs_ret>>
                       ELSE /\ FsDone(th, [name |-> "forget", err |-> "ok",
                                           h |-> h])
                            /\ UNCHANGED inode_m
  /\ UNCHANGED <<fs_inodes, fs_mutex, fd_tab, known, looked, forgot, fs_ops>>
  /\ UNCHANGED <<tabletVars, monikerVars, logVars, scanVars, concVars>>

\* forget_one: lock_guard g_fs{fs.mutex}, then l.unlock()
forget_one_FsLock(th) ==
  /\ fs_fault = "none"
  /\ fs_pc[th] = "fg_fs"
  /\ fs_mutex = 0
  /\ fs_mutex' = th
  /\ inode_m' = [inode_m EXCEPT ![fs_loc[th].h] = 0]
  /\ fs_pc' = [fs_pc EXCEPT ![th] = "fg_erase"]
  /\ UNCHANGED <<fs_inodes, fs_recs, fd_tab, fs_loc, fs_fault, fs_ret, known,
                 looked, forgot, fs_ops>>
  /\ UNCHANGED <<tabletVars, monikerVars, logVars, scanVars, concVars>>

\* forget_one: fs.inodes.erase({inode.src_ino, inode.src_dev}): the record
\* the map holds for the key is destroyed, ~Inode closes its fd when fd > 0;
\* fs.mutex is released
forget_one_Erase(th) ==
  /\ fs_fault = "none"
  /\ fs_pc[th] = "fg_erase"
  /\ LET key == RecKey(fs_loc[th].h)
     IN IF key \in DOMAIN fs_inodes
          THEN LET gone == fs_inodes[key]
               IN /\ fs_inodes' = EraseKey(fs_inodes, key)
                  /\ fs_recs' = [fs_recs EXCEPT ![gone].live = FALSE]
                  /\ fd_tab' = IF fs_recs[gone].fd > 0
                                 THEN Close(fd_tab, fs_recs[gone].fd)
                                 ELSE fd_tab
          ELSE UNCHANGED <<fs_inodes, fs_recs, fd_tab>>
  /\ fs_mutex' = 0
  /\ FsDone(th, [name |-> "forget", err |-> "ok", h |-> fs_loc[th].h])
  /\ UNCHANGED <<inode_m, fs_fault, known, looked, forgot, fs_ops>>
  /\ UNCHANGED <<tabletVars, monikerVars, logVars, scanVars, concVars>>

\* a thread is about to read or lock a record that has been erased: the
\* memory may be gone or reused, and the process may die of it; the steps
\* above are what happens when the bytes are still there
UseAfterFree(th) ==
  /\ fs_fault = "none"
  /\ fs_pc[th] \in {"lk_inc", "ln_inc", "fg_call", "fg_dec", "fg_fs",
                    "fg_erase"}
  /\ Freed(fs_loc[th].h)
  /\ fs_fault' = "crash"
  /\ UNCHANGED <<fs_inodes, fs_recs, fs_mutex, inode_m, fd_tab, fs_pc, fs_loc,
                 fs_ret, known, looked, forgot, fs_ops>>
  /\ UNCHANGED <<tabletVars, monikerVars, logVars, scanVars, concVars>>

InitRegistry ==
  /\ TabletInit /\ MonikerUnused /\ FsInit
  /\ LogUnused /\ ScanUnused /\ ConcUnused

\* the steps of the upcalls, the lookups being those of causes
RegistrySteps(causes) ==
  \/ \E th \in FsThreads : \E in \in LookupInputs : \E cause \in causes :
       do_lookup_Open(th, in, cause)
  \/ \E th \in FsThreads : do_lookup_Find(th)
  \/ \E th \in FsThreads : do_lookup_LockNew(th)
  \/ \E th \in FsThreads : do_lookup_Install(th)
  \/ \E th \in FsThreads : do_lookup_Inc(th)
  \/ \E th \in FsThreads : \E h \in 1 .. Len(fs_recs) : sfs_link_Call(th, h)
  \/ \E th \in FsThreads : sfs_link_Inc(th)
  \/ \E th \in FsThreads : forget_one_GetInode(th)
  \/ \E th \in FsThreads : forget_one_Dec(th)
  \/ \E th \in FsThreads : forget_one_FsLock(th)
  \/ \E th \in FsThreads : forget_one_Erase(th)
  \/ \E th \in FsThreads : UseAfterFree(th)

RegistryNext ==
  \/ RegistrySteps(LookupCauses)
  \/ \E th \in FsThreads : \E h \in 1 .. Len(fs_recs) :
       \E n \in 1 .. MaxFsOps : sfs_forget(th, h, n)

\* upcalls of a kernel that keeps to the protocol, on a thread pool
SpecRegistry == InitRegistry /\ [][RegistryNext]_vars

RegistryAnyNext ==
  \/ RegistrySteps({"lookup"})
  \/ \E th \in FsThreads : \E h \in 1 .. Len(fs_recs) :
       \E n \in 1 .. MaxForget : sfs_forget_Any(th, h, n)

\* forget_one called with any handle and any count, next to lookups and links
SpecRegistryAny == InitRegistry /\ [][RegistryAnyNext]_vars

(***************************************************************************)
(* Tracer: frames and Context::Add                                         *)
(* An upcall thread constructs an AttributionFrame at the top of a         *)
(* handler, may construct another in a handler it calls (sfs_forget and    *)
(* forget_one), may call Context::Add in the body, and destroys the        *)
(* frames on return.  AddInode runs the steps of the tablet store for      *)
(* the thread's next inode.                                                *)
(***************************************************************************)

\* the frame a constructor pushes: its inode (-1: none was given) and, for the
\* record, the tracer's flag at that moment
Frame(inode, on) == [inode |-> inode, on |-> on]

\* thread w is inside the AddInode call it entered last
InAdd(w) == up_add[w] # "none" /\ next[w] = up_loc[w]

\* thread w is in a handler's body, between calls
InBody(w) ==
  /\ ~crashed /\ log_fault = "none"
  /\ attribution_stack[w] # <<>>
  /\ ~InAdd(w) /\ pc[w] = "idle"

\* the steps of Context::AddInode(inode) for thread w
AddInodeSteps(w) ==
  \/ GetTabletForThisThread(w)
  \/ At_Read(w)
  \/ At_Write(w)
  \/ Insert_Lock(w)
  \/ Insert_Emplace(w)

\* AttributionFrame::AttributionFrame, with an inode or without: push, and
\* with an inode call context_->AddInode(inode)
Frame_New(w, with_inode) ==
  /\ ~crashed /\ log_fault = "none"
  /\ pc[w] = "idle" /\ ~InAdd(w)
  /\ Len(attribution_stack[w]) < MaxDepth
  /\ up_ops[w] < MaxUpOps
  /\ with_inode => next[w] < End(w)
  /\ attribution_stack' =
       [attribution_stack EXCEPT
          ![w] = Append(@, Frame(IF with_inode THEN next[w] ELSE -1,
                                 root_enabled))]
  /\ IF with_inode
       THEN /\ up_add' = [up_add EXCEPT ![w] = "frame"]
            /\ up_loc' = [up_loc EXCEPT ![w] = next[w]]
       ELSE UNCHANGED <<up_add, up_loc>>
  /\ up_ops' = [up_ops EXCEPT ![w] = @ + 1]
  /\ UNCHANGED <<log_dir, root_enabled, thread_enabled, root_mu, epoch, files,
                 q_pc, q_into, log_fault, sig_on, toggles, quiesces>>
  /\ UNCHANGED <<tabletVars, monikerVars, fsVars, scanVars, concVars>>

\* Context::Add(parent, id, name, sb) on the thread's context: nothing when
\* enabled_ is false, AddInode(std::get<0>(id)) otherwise
Context_Add(w) ==
  /\ InBody(w)
  /\ up_ops[w] < MaxUpOps
  /\ next[w] < End(w)
  /\ IF thread_enabled[w]
       THEN /\ up_add' = [up_add EXCEPT ![w] = "add"]
            /\ up_loc' = [up_loc EXCEPT ![w] = next[w]]
       ELSE UNCHANGED <<up_add, up_loc>>
  /\ up_ops' = [up_ops EXCEPT ![w] = @ + 1]
  /\ UNCHANGED <<log_dir, root_enabled, thread_enabled, attribution_stack,
                 root_mu, epoch, files, q_pc, q_into, log_fault, sig_on,
                 toggles, quiesces>>
  /\ UNCHANGED <<tabletVars, monikerVars, fsVars, scanVars, concVars>>

\* AttributionFrame::~AttributionFrame: pop; Context::Flush() does nothing
Frame_Destroy(w) ==
  /\ InBody(w)
  /\ attribution_stack' =
       [attribution_stack EXCEPT ![w] = SubSeq(@, 1, Len(@) - 1)]
  /\ UNCHANGED <<log_dir, root_enabled, thread_enabled, root_mu, epoch, files,
                 q_pc, q_into, log_fault, sig_on, up_add, up_loc, up_ops,
                 toggles, quiesces>>
  /\ UNCHANGED <<tabletVars, monikerVars, fsVars, scanVars, concVars>>

\* SetEnabled(val): under the root context's mu_, enabled_ of the root context
SetEnabled(val) ==
  /\ ~crashed /\ log_fault = "none"
  /\ toggles < MaxToggles
  /\ root_mu = 0
  /\ root_enabled' = val
  /\ toggles' = toggles + 1
  /\ UNCHANGED <<log_dir, thread_enabled, attribution_stack, root_mu, epoch,
                 files, q_pc, q_into, log_fault, sig_on, up_add, up_loc,
                 up_ops, quiesces>>
  /\ UNCHANGED <<tabletVars, monikerVars, fsVars, scanVars, concVars>>

\* the process starts with or without --access_log_directory
InitTrace ==
  /\ TabletInit /\ MonikerUnused /\ FsInit
  /\ log_dir \in BOOLEAN
  /\ LogStart
  /\ ScanUnused
  /\ ConcUnused

TraceNext ==
  \/ \E w \in Workers : \E with_inode \in BOOLEAN : Frame_New(w, with_inode)
  \/ \E w \in Workers : InAdd(w) /\ log_fault = "none" /\ AddInodeSteps(w)
  \/ \E w \in Workers : Context_Add(w)
  \/ \E w \in Workers : Frame_Destroy(w)
  \/ \E val \in BOOLEAN : SetEnabled(val)

\* upcall threads constructing frames and recording inodes
SpecTrace == InitTrace /\ [][TraceNext]_vars

(***************************************************************************)
(* Tracer: quiesce                                                         *)
(***************************************************************************)

kLogWriterBufferSize == 4 * 1024 * 1024
\* the tries WriteLog gives TryFsync
FsyncTries == 5
kLineFeed == "\n"

\* what one write(2) can do: fail with an errno, or take some or all bytes
WriteOutcomes == {"EINTR", "EAGAIN", "EIO", "short", "full"}
\* the outcomes of the first system calls of a TryWrite; the later ones succeed
Scripts == StringsOver(WriteOutcomes, MaxSys)

RECURSIVE TryWrite(_, _, _)
\* TryWrite(fd, buf, buf_len) on a file holding data: EINTR and EAGAIN are
\* tried again, another error is returned, a short write goes on with the rest
TryWrite(data, buf, script) ==
  IF buf = <<>> THEN [data |-> data, result |-> 0, script |-> script]
  ELSE LET r == IF script = <<>> THEN "full" ELSE Head(script)
           rest == IF script = <<>> THEN <<>> ELSE Tail(script)
       IN IF r \in {"EINTR", "EAGAIN"} THEN TryWrite(data, buf, rest)
          ELSE IF r = "EIO"
            THEN [data |-> data, result |-> -1, script |-> rest]
          ELSE LET n == IF r = "short" THEN 1 ELSE Len(buf)
               IN TryWrite(data \o SubSeq(buf, 1, n),
                           SubSeq(buf, n + 1, Len(buf)), rest)

RECURSIVE TryFsync(_, _)
\* TryFsync(fd, tries) when the first `fails` calls of fsync fail: the result
\* and the calls made
TryFsync(fails, tries) ==
  IF tries = 0 THEN [result |-> FALSE, calls |-> 0]
  ELSE IF fails = 0 THEN [result |-> TRUE, calls |-> 1]
  ELSE LET r == TryFsync(fails - 1, tries - 1)
       IN [result |-> r.result, calls |-> r.calls + 1]

\* the orders in which a flat_hash_set can hand out its elements
Orders(set) ==
  {f \in [1 .. Cardinality(set) -> set] :
     \A i, j \in 1 .. Cardinality(set) : i # j => f[i] # f[j]}

\* WriteLog's locals before the loop: buf.reserve(kLogWriterBufferSize)
LoopStart(data, script) ==
  [data |-> data, buf |-> <<>>, capacity |-> kLogWriterBufferSize,
   script |-> script, written |-> 0, thrown |-> FALSE]

RECURSIVE WriteLogLoop(_, _, _)
\* the loop of WriteLog over the aggregated data: monikers.Get(inode, 1); a
\* path is appended to buf with a line feed, after buf was written out if its
\* capacity is below the path's size; an inode without a path is passed over
WriteLogLoop(m, order, st) ==
  IF order = <<>> \/ st.written # 0 \/ st.thrown THEN st
  ELSE LET path == TableGet(m, Head(order))
       IN IF path.kind = "throw" THEN [st EXCEPT !.thrown = TRUE]
          ELSE IF path.kind = "none" THEN WriteLogLoop(m, Tail(order), st)
          ELSE LET flush == st.capacity < Len(path.value)
                   w == TryWrite(st.data, st.buf, st.script)
                   st1 == IF flush
                            THEN [st EXCEPT !.data = w.data, !.buf = <<>>,
                                            !.script = w.script,
                                            !.written = w.result]
                            ELSE st
                   buf2 == st1.buf \o path.value \o <<kLineFeed>>
               IN IF st1.written # 0 THEN st1
                  ELSE WriteLogLoop(m, Tail(order),
                         [st1 EXCEPT
                            !.buf = buf2,
                            !.capacity = IF Len(buf2) > @ THEN Len(buf2)
                                         ELSE @])

\* WriteLog from the loop to the last TryWrite: what the file holds afterwards
\* and what the PCHECKs saw
WriteLogData(m, order, data, script) ==
  LET st == WriteLogLoop(m, order, LoopStart(data, script))
      w == TryWrite(st.data, st.buf, st.script)
  IN IF st.written # 0 \/ st.thrown
       THEN [data |-> st.data, written |-> st.written, thrown |-> st.thrown]
       ELSE [data |-> w.data, written |-> w.result, thrown |-> FALSE]

\* the file a quiesce has opened: its name is <dir>/<pid>.<epoch>.log
LogFile(e, q) ==
  [epoch |-> e, by |-> q, data |-> <<>>, swept |-> {}, wrote |-> FALSE,
   fsyncs |-> 0, synced |-> FALSE, closed |-> FALSE]

\* a slip: the counter is read and not increased
NextEpoch_Same == [value |-> epoch, after |-> epoch]
\* NextEpoch(): epoch.fetch_add(1), the value before the addition
NextEpoch == [value |-> epoch, after |-> epoch + 1]

\* the data of the Tablet aggregated of thread q's WriteLog
Aggregated(q) ==
  IF q_into[q] \in 1 .. Len(agg) THEN agg[q_into[q]] ELSE {}

\* quiesce() -> Context::WriteLogs(): return when the flag is empty
WriteLogs_Call(q) ==
  /\ ~crashed /\ log_fault = "none"
  /\ q_pc[q] = "idle" /\ pc[q] = "idle"
  /\ quiesces < MaxQuiesce
  /\ quiesces' = quiesces + 1
  /\ q_pc' = [q_pc EXCEPT ![q] = IF log_dir THEN "wl_lock" ELSE "idle"]
  /\ UNCHANGED <<log_dir, root_enabled, thread_enabled, attribution_stack,
                 root_mu, epoch, files, q_into, log_fault, sig_on, up_add,
                 up_loc, up_ops, toggles>>
  /\ UNCHANGED <<tabletVars, monikerVars, fsVars, scanVars, concVars>>

\* WriteLogs: lock the root context, NextEpoch(), open(); PCHECK(log_fd >= 0)
WriteLogs_Open(q, ok) ==
  /\ ~crashed /\ log_fault = "none"
  /\ q_pc[q] = "wl_lock"
  /\ root_mu = 0
  /\ root_mu' = q
  /\ epoch' = NextEpoch.after
  /\ IF ok
       THEN /\ files' = Append(files, LogFile(NextEpoch.value, q))
            /\ q_pc' = [q_pc EXCEPT ![q] = "wl_log"]
            /\ UNCHANGED log_fault
       ELSE /\ log_fault' = "abort"
            /\ UNCHANGED <<files, q_pc>>
  /\ UNCHANGED <<log_dir, root_enabled, thread_enabled, attribution_stack,
                 q_into, sig_on, up_add, up_loc, up_ops, toggles, quiesces>>
  /\ UNCHANGED <<tabletVars, monikerVars, fsVars, scanVars, concVars>>

\* WriteLog: return when the root context is disabled, else construct the
\* Tablet aggregated
WriteLog_Enter(q) ==
  /\ ~crashed /\ log_fault = "none"
  /\ q_pc[q] = "wl_log"
  /\ IF root_enabled
       THEN /\ q_pc' = [q_pc EXCEPT ![q] = "wl_sweep"]
            /\ q_into' = [q_into EXCEPT ![q] = Len(agg) + 1]
       ELSE /\ q_pc' = [q_pc EXCEPT ![q] = "wl_close"]
            /\ UNCHANGED q_into
  /\ UNCHANGED <<log_dir, root_enabled, thread_enabled, attribution_stack,
                 root_mu, epoch, files, log_fault, sig_on, up_add, up_loc,
                 up_ops, toggles, quiesces>>
  /\ UNCHANGED <<tabletVars, monikerVars, fsVars, scanVars, concVars>>

\* WriteLog: GetTablets()->Sweep(aggregated), step by step
WriteLog_Sweep(q) ==
  /\ log_fault = "none"
  /\ q_pc[q] = "wl_sweep"
  /\ \/ sw_into[q] # q_into[q] /\ Sweep_Call(q, q_into[q])
     \/ SweepSteps(q)

\* WriteLog after the sweep: the loop over the aggregated data and the last
\* TryWrite, each followed by PCHECK(written == 0)
WriteLog_Write(q, order, script) ==
  /\ ~crashed /\ log_fault = "none"
  /\ q_pc[q] = "wl_sweep"
  /\ pc[q] = "idle" /\ sw_into[q] = q_into[q]
  /\ LET r == WriteLogData(TheTable, order, files[Len(files)].data, script)
     IN /\ files' = [files EXCEPT ![Len(files)].data = r.data,
                                  ![Len(files)].swept = Aggregated(q),
                                  ![Len(files)].wrote = TRUE]
        /\ log_fault' = IF r.thrown THEN "throw"
                        ELSE IF r.written # 0 THEN "abort" ELSE "none"
        /\ q_pc' = [q_pc EXCEPT
                      ![q] = IF r.thrown \/ r.written # 0 THEN @
                             ELSE "wl_fsync"]
  /\ UNCHANGED <<log_dir, root_enabled, thread_enabled, attribution_stack,
                 root_mu, epoch, q_into, sig_on, up_add, up_loc, up_ops,
                 toggles, quiesces>>
  /\ UNCHANGED <<tabletVars, monikerVars, fsVars, scanVars, concVars>>

\* WriteLog: TryFsync(fd, 5); the result is not read
WriteLog_Fsync(q, fails) ==
  /\ ~crashed /\ log_fault = "none"
  /\ q_pc[q] = "wl_fsync"
  /\ LET r == TryFsync(fails, FsyncTries)
     IN files' = [files EXCEPT ![Len(files)].fsyncs = r.calls,
                               ![Len(files)].synced = r.result]
  /\ q_pc' = [q_pc EXCEPT ![q] = "wl_close"]
  /\ UNCHANGED <<log_dir, root_enabled, thread_enabled, attribution_stack,
                 root_mu, epoch, q_into, log_fault, sig_on, up_add, up_loc,
                 up_ops, toggles, quiesces>>
  /\ UNCHANGED <<tabletVars, monikerVars, fsVars, scanVars, concVars>>

\* WriteLogs: PCHECK(close(log_fd) == 0), "Finished writing log", unlock
WriteLogs_Close(q, ok) ==
  /\ ~crashed /\ log_fault = "none"
  /\ q_pc[q] = "wl_close"
  /\ IF ok
       THEN /\ files' = [files EXCEPT ![Len(files)].closed = TRUE]
            /\ root_mu' = 0
            /\ q_pc' = [q_pc EXCEPT ![q] = "idle"]
            /\ UNCHANGED log_fault
       ELSE /\ log_fault' = "abort"
            /\ UNCHANGED <<files, root_mu, q_pc>>
  /\ UNCHANGED <<log_dir, root_enabled, thread_enabled, attribution_stack,
                 epoch, q_into, sig_on, up_add, up_loc, up_ops, toggles,
                 quiesces>>
  /\ UNCHANGED <<tabletVars, monikerVars, fsVars, scanVars, concVars>>

\* the steps of quiesce once thread q has called it
QuiesceSteps(q) ==
  \/ \E ok \in BOOLEAN : WriteLogs_Open(q, ok)
  \/ WriteLog_Enter(q)
  \/ WriteLog_Sweep(q)
  \/ \E order \in Orders(Aggregated(q)) : \E script \in Scripts :
       WriteLog_Write(q, order, script)
  \/ \E fails \in 0 .. FsyncTries : WriteLog_Fsync(q, fails)
  \/ \E ok \in BOOLEAN : WriteLogs_Close(q, ok)

\* a name with a line feed in it is a name like any other
ScannedNames == {<<"a", "/", "a">>, <<"a", kLineFeed, "a">>}

\* the moniker table after the scan of a source tree with the root 0, a
\* directory 1 and an entry 2 below it; inode 3 is not in the tree
ScannedTable(name) ==
  TableInsert(TableInsert(TableNew(0), 1, <<"a">>).table, 2, name).table

\* the process after start-up: the table is populated, nothing was recorded
InitQuiesce ==
  /\ TabletInit /\ FsInit
  /\ \E name \in ScannedNames :
       /\ id_ = ScannedTable(name).tokens.id_
       /\ forward_ = ScannedTable(name).tokens.forward_
       /\ reverse_ = ScannedTable(name).tokens.reverse_
       /\ nodes = ScannedTable(name).nodes
       /\ id_to_terminal_ = ScannedTable(name).terminal
  /\ root_node_id_ = 0
  /\ tt_calls = <<>>
  /\ inserts = 0
  /\ op = [name |-> "none"]
  /\ log_dir \in BOOLEAN
  /\ LogStart
  /\ ScanUnused
  /\ ConcUnused

QuiesceNext ==
  \/ log_fault = "none" /\ WorkerSteps
  \/ quiesces = 0 /\ WriteLogs_Call(Main)
  \/ QuiesceSteps(Main)

\* workers recording inodes while the main thread quiesces, once
SpecQuiesce == InitQuiesce /\ [][QuiesceNext]_vars

EpochsNext ==
  \/ \E q \in Sweepers : WriteLogs_Call(q)
  \/ \E q \in Sweepers : QuiesceSteps(q)
  \/ \E val \in BOOLEAN : SetEnabled(val)

\* two threads quiesce, sfs_destroy and the SIGHUP handler, and nothing is
\* recorded
SpecEpochs == InitQuiesce /\ [][EpochsNext]_vars

(***************************************************************************)
(* Tracer: SIGHUP                                                          *)
(***************************************************************************)

\* with --multithreaded=false one thread runs fuse_session_loop and then
\* sfs_destroy: it is worker 1 while it serves upcalls, Main in sfs_destroy
LoopThread == IF q_pc[Main] # "idle" THEN Main ELSE 1

\* SIGHUP arrives: catch_signal starts on the stack of the loop thread, which
\* does not run again before the handler returns
Signal_Deliver ==
  /\ ~crashed /\ log_fault = "none"
  /\ sig_on = 0
  /\ quiesces < MaxQuiesce
  /\ sig_on' = LoopThread
  /\ q_pc' = [q_pc EXCEPT ![Second] = "sig"]
  /\ quiesces' = quiesces + 1
  /\ UNCHANGED <<log_dir, root_enabled, thread_enabled, attribution_stack,
                 root_mu, epoch, files, q_into, log_fault, up_add, up_loc,
                 up_ops, toggles>>
  /\ UNCHANGED <<tabletVars, monikerVars, fsVars, scanVars, concVars>>

\* catch_signal: signo == SIGHUP, quiesce(); WriteLogs returns when the flag
\* is empty
Signal_Quiesce ==
  /\ ~crashed /\ log_fault = "none"
  /\ q_pc[Second] = "sig"
  /\ q_pc' = [q_pc EXCEPT ![Second] = IF log_dir THEN "wl_lock" ELSE "idle"]
  /\ UNCHANGED <<log_dir, root_enabled, thread_enabled, attribution_stack,
                 root_mu, epoch, files, q_into, log_fault, sig_on, up_add,
                 up_loc, up_ops, toggles, quiesces>>
  /\ UNCHANGED <<tabletVars, monikerVars, fsVars, scanVars, concVars>>

\* catch_signal returns and the interrupted thread goes on
Signal_Return ==
  /\ ~crashed /\ log_fault = "none"
  /\ sig_on # 0
  /\ q_pc[Second] = "idle" /\ pc[Second] = "idle"
  /\ sig_on' = 0
  /\ UNCHANGED <<log_dir, root_enabled, thread_enabled, attribution_stack,
                 root_mu, epoch, files, q_pc, q_into, log_fault, up_add,
                 up_loc, up_ops, toggles, quiesces>>
  /\ UNCHANGED <<tabletVars, monikerVars, fsVars, scanVars, concVars>>

\* the loop thread: upcalls that record inodes, then sfs_destroy's quiesce
LoopSteps ==
  /\ sig_on = 0
  /\ \/ q_pc[Main] = "idle" /\ log_fault = "none" /\ AddInodeSteps(1)
     \/ pc[1] = "idle" /\ WriteLogs_Call(Main)
     \/ QuiesceSteps(Main)

\* the handler, on top of the loop thread
HandlerSteps ==
  \/ Signal_Quiesce
  \/ sig_on # 0 /\ QuiesceSteps(Second)
  \/ Signal_Return

SignalNext ==
  \/ Signal_Deliver
  \/ LoopSteps
  \/ HandlerSteps

\* a single-threaded session that receives SIGHUP; a thread that can take a
\* step goes on taking steps
SpecSignal ==
  /\ InitQuiesce
  /\ [][SignalNext]_vars
  /\ WF_vars(LoopSteps)
  /\ WF_vars(HandlerSteps)

(***************************************************************************)
(* Initial scan of the source tree                                         *)
(***************************************************************************)

\* st_ino of the directory the scan starts at: the table's root_node_id
RootIno == 0
\* an entry of the tree: its name, the entry it is in (0 = the start
\* directory), what lstat reports for it
Entry(name, parent, type, ino, dev) ==
  [name |-> name, parent |-> parent, type |-> type, ino |-> ino, dev |-> dev]

\* the tree of TEST_F(TrackerTest, Smoke): foo, foo/1, foo/bar, foo/bar/2, and
\* what else a source tree can hold in these places: bar a mount point of
\* another device or a bind mount of the start directory, 2 a symbolic link
\* or a second name (hard link) of foo/1
Tree(bar_ino, bar_dev, two_type, two_ino) ==
  << Entry(<<"f", "o", "o">>, 0, "dir", 1, SrcDev),
     Entry(<<"1">>, 1, "file", 2, SrcDev),
     Entry(<<"b", "a", "r">>, 1, "dir", bar_ino, bar_dev),
     Entry(<<"2">>, 3, two_type, two_ino, bar_dev) >>

Trees ==
  {Tree(bar_ino, bar_dev, two_type, two_ino) :
     bar_ino \in {3, RootIno}, bar_dev \in {SrcDev, OtherDev},
     two_type \in {"file", "symlink"}, two_ino \in {4, 2}}

\* the start directory as it is handed over, with and without a last "/"
ScanPaths == {<<"/", "s">>, <<"/", "s", "/">>}

\* st_ino and st_dev of entry i; 0 is the start directory
InoOf(tree, i) == IF i = 0 THEN RootIno ELSE tree[i].ino
DevOf(tree, i) == IF i = 0 THEN SrcDev ELSE tree[i].dev

RECURSIVE Ancestors(_, _)
\* the directories entry i is in, up to the start directory
Ancestors(tree, i) ==
  IF i = 0 THEN {} ELSE {tree[i].parent} \cup Ancestors(tree, tree[i].parent)

\* fts_info of entry i under FTS_PHYSICAL: a directory that is one of its own
\* ancestors is FTS_DC
FtsInfo(tree, i) ==
  IF i = 0 THEN "FTS_D"
  ELSE IF tree[i].type = "dir"
    THEN IF \E a \in Ancestors(tree, i) :
              InoOf(tree, a) = tree[i].ino /\ DevOf(tree, a) = tree[i].dev
           THEN "FTS_DC" ELSE "FTS_D"
  ELSE IF tree[i].type = "file" THEN "FTS_F"
  ELSE IF tree[i].type = "symlink" THEN "FTS_SL"
  ELSE IF tree[i].type = "gone" THEN "FTS_NS"
  ELSE "FTS_DEFAULT"

\* the entries of directory i, in the order of FtsNameCompare
ChildrenOf(tree, i) ==
  SelectSeq([k \in 1 .. Len(tree) |-> k], LAMBDA k : tree[k].parent = i)

RECURSIVE FtsReads(_, _)
RECURSIVE FtsReadsAll(_, _)
\* what the calls of fts_read return for entry i and below: a directory before
\* and after its entries, anything else once; FTS_XDEV: a directory of another
\* device is not descended into
FtsReads(tree, i) ==
  IF FtsInfo(tree, i) # "FTS_D"
    THEN <<[entry |-> i, info |-> FtsInfo(tree, i)]>>
    ELSE <<[entry |-> i, info |-> "FTS_D"]>>
           \o (IF DevOf(tree, i) # SrcDev THEN <<>>
               ELSE FtsReadsAll(tree, ChildrenOf(tree, i)))
           \o <<[entry |-> i, info |-> "FTS_DP"]>>

FtsReadsAll(tree, list) ==
  IF list = <<>> THEN <<>>
  ELSE FtsReads(tree, Head(list)) \o FtsReadsAll(tree, Tail(list))

\* fts appends to a path after dropping one "/" at its end
NAppend(str) ==
  IF str # <<>> /\ str[Len(str)] = kPathSeparatorChar
    THEN SubSeq(str, 1, Len(str) - 1) ELSE str

RECURSIVE FtsPathOf(_, _, _)
\* the path of entry i as fts builds it below path
FtsPathOf(tree, path, i) ==
  IF i = 0 THEN path
  ELSE NAppend(FtsPathOf(tree, path, tree[i].parent))
         \o <<kPathSeparatorChar>> \o tree[i].name

\* fts_path of the entries fts_children returns for directory i: the shared
\* buffer, which holds the directory's path and a "/"
ChildFtsPath(tree, path, i) ==
  NAppend(FtsPathOf(tree, path, i)) \o <<kPathSeparatorChar>>

\* std::string::substr(pos)
Substr(str, pos) == SubSeq(str, pos + 1, Len(str))

\* the switch over entry->fts_info: the value of the local `insert`, which has
\* no initializer; a case that assigns nothing leaves whatever it held
InsertAfterSwitch(info, with_files, garbage) ==
  IF info \in {"FTS_NS", "FTS_DNR", "FTS_ERR"} THEN "fatal"
  ELSE IF info \in {"FTS_DC", "FTS_DOT", "FTS_NSOK", "FTS_DP"}
    THEN IF garbage THEN "insert" ELSE "skip"
  ELSE IF info = "FTS_D" THEN "insert"
  ELSE IF with_files THEN "insert" ELSE "skip"

\* AddFilesystemContentToMonikerTable(path, table, include_files) is called on
\* the table MonikerTable{root_inode}: fts_open
InitScan ==
  /\ TabletInit /\ FsInit /\ LogUnused /\ ConcUnused
  /\ include_files \in BOOLEAN
  /\ scan_path \in ScanPaths
  /\ fts_tree \in Trees
  /\ fts_reads = FtsReads(fts_tree, 0)
  /\ fts_cur = 0
  /\ fts_child = <<>>
  /\ addition_count = 0
  /\ scan_pc = "loop"
  /\ root_node_id_ = RootIno
  /\ id_ = TableNew(RootIno).tokens.id_
  /\ forward_ = TableNew(RootIno).tokens.forward_
  /\ reverse_ = TableNew(RootIno).tokens.reverse_
  /\ nodes = TableNew(RootIno).nodes
  /\ id_to_terminal_ = TableNew(RootIno).terminal
  /\ tt_calls = <<>>
  /\ inserts = 0
  /\ op = [name |-> "none"]

\* the outer loop: parent = fts_read(ftsp), entry = fts_children(ftsp, 0);
\* fts_children returns a list only for a directory returned in preorder
Scan_Read ==
  /\ scan_pc = "loop"
  /\ fts_child = <<>>
  /\ fts_reads # <<>>
  /\ fts_cur' = Head(fts_reads).entry
  /\ fts_child' = IF Head(fts_reads).info = "FTS_D"
                    THEN ChildrenOf(fts_tree, Head(fts_reads).entry)
                    ELSE <<>>
  /\ fts_reads' = Tail(fts_reads)
  /\ UNCHANGED <<include_files, scan_path, fts_tree, addition_count, scan_pc>>
  /\ UNCHANGED <<tabletVars, monikerVars, fsVars, logVars, concVars>>

\* the inner loop's body for entry: the switch, then table.Insert(st_ino,
\* pathbuf.substr(path.size())) and addition_count += 1 if insert
Scan_Entry(garbage) ==
  /\ scan_pc = "loop"
  /\ fts_child # <<>>
  /\ LET entry == Head(fts_child)
         todo == InsertAfterSwitch(FtsInfo(fts_tree, entry), include_files,
                                   garbage)
         pathbuf == ChildFtsPath(fts_tree, scan_path, fts_cur)
                      \o fts_tree[entry].name
         r == TableInsert(TheTable, fts_tree[entry].ino,
                          Substr(pathbuf, Len(scan_path)))
     IN /\ scan_pc' = IF todo = "fatal" THEN "fatal" ELSE "loop"
        /\ IF todo = "insert"
             THEN /\ TableBecomes(r.table)
                  /\ op' = [name |-> "Insert", id |-> fts_tree[entry].ino,
                            path |-> Substr(pathbuf, Len(scan_path)),
                            had |-> fts_tree[entry].ino
                                      \in DOMAIN id_to_terminal_,
                            ret |-> r.ret]
                  /\ addition_count' = addition_count + 1
             ELSE UNCHANGED <<id_, forward_, reverse_, nodes, id_to_terminal_,
                              op, addition_count>>
  /\ fts_child' = Tail(fts_child)
  /\ UNCHANGED <<root_node_id_, tt_calls, inserts>>
  /\ UNCHANGED <<include_files, scan_path, fts_tree, fts_reads, fts_cur>>
  /\ UNCHANGED <<tabletVars, fsVars, logVars, concVars>>

\* fts_read returns null: fts_close, return addition_count
Scan_Return ==
  /\ scan_pc = "loop"
  /\ fts_child = <<>>
  /\ fts_reads = <<>>
  /\ scan_pc' = "done"
  /\ UNCHANGED <<include_files, scan_path, fts_tree, fts_reads, fts_cur,
                 fts_child, addition_count>>
  /\ UNCHANGED <<tabletVars, monikerVars, fsVars, logVars, concVars>>

ScanNext ==
  \/ Scan_Read
  \/ \E garbage \in BOOLEAN : Scan_Entry(garbage)
  \/ Scan_Return

\* one scan of a source tree into a new table
SpecScan == InitScan /\ [][ScanNext]_vars

(***************************************************************************)
(* Upcalls: what the handlers put into the tablets                         *)
(* The source tree has the root directory, inode RootIno, and one file     *)
(* "a" below it, inode MaxIno; the table holds both.  A handler is one     *)
(* step; the steps inside the tablet store and the registry are those of   *)
(* their sections.                                                         *)
(***************************************************************************)

\* addresses of Inode records as numbers: e->ino is
\* reinterpret_cast<fuse_ino_t>(inode_p); the heap lies above the inode
\* numbers of the tree
HeapBase == 16
Address(h) == HeapBase + h

\* the SrcId of the file
FileId == <<MaxIno, SrcDev>>

\* PopulateMonikerTable(source_directory, ...) on that tree
UpTable == TableInsert(TableNew(RootIno), FileId[1], <<"a">>).table

\* the tablet store as a value
StoreNow ==
  [count |-> global_thread_count, ids |-> thread_id, slots |-> tablets_,
   data |-> tab_data]

\* Context::AddInode(inode) on thread w, whole: GetLogicalThreadId, At of the
\* thread's slot with the growth it does, Tablet::Insert
AddInode(st, w, inode) ==
  LET unset == st.ids[w] = SIZE_MAX
      id == IF unset THEN st.count ELSE st.ids[w]
      grow == IF AtAllocated(Len(st.slots), id) THEN 0
              ELSE GrowCount(id, Len(st.slots))
      slots == st.slots \o [k \in 1 .. grow |-> Len(st.data) + k]
      data == st.data \o [k \in 1 .. grow |-> {}]
  IN [count |-> IF unset THEN st.count + 1 ELSE st.count,
      ids |-> [st.ids EXCEPT ![w] = id],
      slots |-> slots,
      data |-> [data EXCEPT ![AtSlot(slots, id)] = Emplace(@, inode)]]

\* the variables of the store take the values of st
StoreBecomes(st) ==
  /\ global_thread_count' = st.count
  /\ thread_id' = st.ids
  /\ tablets_' = st.slots
  /\ tab_data' = st.data
  /\ tab_mu' = [k \in 1 .. Len(st.data) |-> 0]

\* the handles the kernel may pass: the root, and the records it holds
\* lookups of
KernelHandles ==
  {FUSE_ROOT_ID} \cup {Address(h) : h \in {k \in 1 .. Len(fs_recs) :
                                            known[k] > 0}}

\* sfs_lookup(req, parent = FUSE_ROOT_ID, "a"): the frame records parent,
\* do_lookup finds or installs the record of the file and calls
\* Context::Add(parent, id, ...), which records std::get<0>(id) when the
\* thread's context is enabled; the entry is replied
Upcall_Lookup(w) ==
  /\ up_ops[w] < MaxUpOps
  /\ up_ops' = [up_ops EXCEPT ![w] = @ + 1]
  /\ LET framed == AddInode(StoreNow, w, FUSE_ROOT_ID)
         newfd == Len(fd_tab) + 1
         opened == Append(fd_tab, [closes |-> 0, id |-> FileId])
     IN /\ StoreBecomes(IF thread_enabled[w]
                          THEN AddInode(framed, w, FileId[1]) ELSE framed)
        /\ IF FileId \in DOMAIN fs_inodes
             THEN LET h == fs_inodes[FileId]
                  IN /\ fs_recs' = [fs_recs EXCEPT
                                      ![h].nlookup = (@ + 1) % SizeModulus]
                     /\ fd_tab' = Close(opened, newfd)
                     /\ known' = [known EXCEPT ![h] = @ + 1]
                     /\ UNCHANGED <<fs_inodes, inode_m>>
             ELSE LET h == Len(fs_recs) + 1
                  IN /\ fs_inodes' = (FileId :> h) @@ fs_inodes
                     /\ fs_recs' = Append(fs_recs,
                                          [InodeNew EXCEPT
                                             !.src_ino = FileId[1],
                                             !.src_dev = FileId[2],
                                             !.nlookup = 1,
                                             !.fd = newfd])
                     /\ inode_m' = Append(inode_m, 0)
                     /\ fd_tab' = opened
                     /\ known' = Append(known, 1)
  /\ looked' = [looked EXCEPT ![FileId] = @ + 1]
  /\ UNCHANGED <<mu_readers, sweep_mu_, pc, at_index, at_own, t, next, sw_into,
                 sw_after, swap_tablets, sw_i, agg, crashed, issued, handed,
                 ins_at, sweeps_started, sweep_log>>
  /\ UNCHANGED <<fs_mutex, fs_pc, fs_loc, fs_fault, fs_ret, forgot, fs_ops>>
  /\ UNCHANGED <<log_dir, root_enabled, thread_enabled, attribution_stack,
                 root_mu, epoch, files, q_pc, q_into, log_fault, sig_on,
                 up_add, up_loc, toggles, quiesces>>
  /\ UNCHANGED <<monikerVars, scanVars, concVars>>

\* sfs_getattr(req, ino, fi): the frame records ino, get_inode(ino), fstatat
\* and the reply
Upcall_Getattr(w, ino) ==
  /\ up_ops[w] < MaxUpOps
  /\ ino \in KernelHandles
  /\ up_ops' = [up_ops EXCEPT ![w] = @ + 1]
  /\ StoreBecomes(AddInode(StoreNow, w, ino))
  /\ UNCHANGED <<mu_readers, sweep_mu_, pc, at_index, at_own, t, next, sw_into,
                 sw_after, swap_tablets, sw_i, agg, crashed, issued, handed,
                 ins_at, sweeps_started, sweep_log>>
  /\ UNCHANGED <<log_dir, root_enabled, thread_enabled, attribution_stack,
                 root_mu, epoch, files, q_pc, q_into, log_fault, sig_on,
                 up_add, up_loc, toggles, quiesces>>
  /\ UNCHANGED <<monikerVars, fsVars, scanVars, concVars>>

\* the paths WriteLog writes for the inodes swept: monikers.Get(inode, 1) of
\* each, the ones without a path left out
LogOf(swept) ==
  {TableGet(TheTable, v).value :
     v \in {u \in swept : TableGet(TheTable, u).kind = "some"}}

\* what the tablets hold
InTablets == UNION {tab_data[k] : k \in 1 .. Len(tab_data)}

\* quiesce with the tracer on: the tablets are swept into a new aggregated
\* tablet and left empty
Upcall_Quiesce ==
  /\ log_dir
  /\ quiesces < MaxQuiesce
  /\ quiesces' = quiesces + 1
  /\ agg' = Append(agg, InTablets)
  /\ tab_data' = [k \in 1 .. Len(tab_data) |-> {}]
  /\ UNCHANGED <<global_thread_count, thread_id, tablets_, tab_mu, mu_readers,
                 sweep_mu_, pc, at_index, at_own, t, next, sw_into, sw_after,
                 swap_tablets, sw_i, crashed, issued, handed, ins_at,
                 sweeps_started, sweep_log>>
  /\ UNCHANGED <<log_dir, root_enabled, thread_enabled, attribution_stack,
                 root_mu, epoch, files, q_pc, q_into, log_fault, sig_on,
                 up_add, up_loc, up_ops, toggles>>
  /\ UNCHANGED <<monikerVars, fsVars, scanVars, concVars>>

\* the process after start-up, with or without --access_log_directory
InitUpcalls ==
  /\ TabletInit /\ FsInit
  /\ id_ = UpTable.tokens.id_
  /\ forward_ = UpTable.tokens.forward_
  /\ reverse_ = UpTable.tokens.reverse_
  /\ nodes = UpTable.nodes
  /\ id_to_terminal_ = UpTable.terminal
  /\ root_node_id_ = RootIno
  /\ tt_calls = <<>>
  /\ inserts = 0
  /\ op = [name |-> "none"]
  /\ log_dir \in BOOLEAN
  /\ LogStart
  /\ ScanUnused
  /\ ConcUnused

UpcallsNext ==
  \/ \E w \in Workers : Upcall_Lookup(w)
  \/ \E w \in Workers : \E ino \in KernelHandles : Upcall_Getattr(w, ino)
  \/ Upcall_Quiesce

\* upcall threads serving lookups and getattrs of the tree between quiesces
SpecUpcalls == InitUpcalls /\ [][UpcallsNext]_vars

(***************************************************************************)
(* Claims about the tablet store                                           *)
(***************************************************************************)

\* every completed sweep went into an aggregated tablet of its own
FreshEach ==
  \A j, k \in 1 .. Len(sweep_log) :
    j # k => sweep_log[j].into # sweep_log[k].into

\* every completed sweep went into the same aggregated tablet
Accumulating ==
  \A j, k \in 1 .. Len(sweep_log) : sweep_log[j].into = sweep_log[k].into

\* the completed sweeps whose output holds v
OutputsWith(v) ==
  {k \in 1 .. Len(sweep_log) : v \in agg[sweep_log[k].into]}

\* C1: when every worker has inserted its range [Begin, End) before the one and
\* only Sweep starts, the aggregated tablet of that Sweep is exactly the union
\* of the ranges.
C1_TabletUnion ==
  (sweeps_started = 1 /\ Len(sweep_log) = 1 /\ sweep_log[1].after)
    => agg[sweep_log[1].into] = UNION {Begin(w) .. (End(w) - 1) : w \in Workers}

C1_Witness ==
  /\ sweeps_started = 1 /\ Len(sweep_log) = 1 /\ sweep_log[1].after
  /\ Cardinality(agg[sweep_log[1].into]) = NWorkers * Count

\* C2: with every Sweep into a fresh aggregated tablet, a value inserted when
\* n sweeps had completed is in the output of sweep n+1 (the current one) or
\* of sweep n+2 (the next one), in no other, never in both, and in one of
\* them once both have completed.
C2_NoDoubleCounting ==
  FreshEach =>
    \A v \in Values :
      ins_at[v] >= 0 =>
        /\ OutputsWith(v) \subseteq {ins_at[v] + 1, ins_at[v] + 2}
        /\ Cardinality(OutputsWith(v)) <= 1
        /\ Len(sweep_log) >= ins_at[v] + 2 => Cardinality(OutputsWith(v)) = 1

\* a value inserted during the first sweep, behind its back, is in the second
C2_Witness ==
  /\ FreshEach /\ Len(sweep_log) = 2
  /\ \E v, u \in Values :
       /\ ins_at[v] = 0 /\ OutputsWith(v) = {2}
       /\ ins_at[u] = 0 /\ OutputsWith(u) = {1}

\* C3: with every Sweep into one accumulating aggregated tablet, once a Sweep
\* that was called after all workers had finished has completed, the tablet
\* holds every inserted value and nothing else.
C3_NoLoss ==
  (Accumulating /\ \E k \in 1 .. Len(sweep_log) : sweep_log[k].after)
    => /\ Values \subseteq agg[sweep_log[1].into]
       /\ Cardinality(agg[sweep_log[1].into]) = NWorkers * Count

\* a sweep took part of the values while the workers ran, a later one the rest
C3_Witness ==
  /\ Accumulating /\ Len(sweep_log) = 2
  /\ ~sweep_log[1].after /\ sweep_log[2].after
  /\ \E v, u \in Values : ins_at[v] = 0 /\ ins_at[u] = 1

\* C4: thread IDs are assigned once, are distinct and dense from 0; every call
\* of At or GetTabletForThisThread for an index returns the Tablet of that
\* slot, the same on every call, and no two indices share a Tablet.
C4_SlotStability ==
  /\ \A p, q \in issued : (p[1] = q[1]) <=> (p[2] = q[2])
  /\ {p[2] : p \in issued} = 0 .. (Cardinality({p[1] : p \in issued}) - 1)
  /\ \A p, q \in handed : (p[1] = q[1]) <=> (p[2] = q[2])
  /\ \A p \in handed : p[1] < Len(tablets_) /\ tablets_[p[1] + 1] = p[2]
  /\ \A w \in Workers : t[w] # 0 => <<thread_id[w], t[w]>> \in handed

\* every worker has fetched its tablet for each of its values, before and
\* after the slot vector grew and around a completed sweep
C4_Witness ==
  /\ Cardinality(issued) = NWorkers
  /\ {p[1] : p \in handed} = 0 .. (NWorkers - 1)
  /\ \A w \in Workers : next[w] = End(w) /\ t[w] # 0
  /\ Len(tablets_) = NWorkers
  /\ Len(sweep_log) >= 1

(***************************************************************************)
(* Claims about the token table                                            *)
(***************************************************************************)

\* the strings of the first n calls of GetOrInsert
SeenBefore(n) == {tt_calls[j].token : j \in 1 .. n}

\* the first call of GetOrInsert with the string of call k
FirstCall(k) ==
  CHOOSE j \in 1 .. k :
    /\ tt_calls[j].token = tt_calls[k].token
    /\ \A i \in 1 .. (j - 1) : tt_calls[i].token # tt_calls[k].token

\* C5: after calls of GetOrInsert with n distinct strings the IDs returned are
\* exactly 0 .. n-1, and every call returns the number of distinct strings
\* seen before the first call with its string.
C5_Densification ==
  /\ {tt_calls[k].first : k \in 1 .. Len(tt_calls)}
       = 0 .. (Cardinality(SeenBefore(Len(tt_calls))) - 1)
  /\ \A k \in 1 .. Len(tt_calls) :
       tt_calls[k].first = Cardinality(SeenBefore(FirstCall(k) - 1))

\* the test's sequence and more: three distinct strings, one of them repeated
C5_Witness ==
  /\ Len(tt_calls) = MaxCalls
  /\ Cardinality(SeenBefore(Len(tt_calls))) = 3
  /\ tt_calls[1].token = tt_calls[2].token

\* C6: GetOrInsert returns equal IDs exactly for equal strings, and true
\* exactly when no earlier call had the string.
C6_Injectivity ==
  \A k \in 1 .. Len(tt_calls) :
    /\ \A j \in 1 .. Len(tt_calls) :
         (tt_calls[j].token = tt_calls[k].token)
           <=> (tt_calls[j].first = tt_calls[k].first)
    /\ tt_calls[k].second <=> (tt_calls[k].token \notin SeenBefore(k - 1))

\* a duplicate call after another string was interned in between
C6_Witness ==
  /\ Len(tt_calls) >= 3
  /\ tt_calls[1].token = tt_calls[3].token
  /\ tt_calls[1].token # tt_calls[2].token
  /\ ~tt_calls[3].second

\* C7: in every state ReverseLookup of the ID any earlier GetOrInsert call
\* returned yields the string of that call.
C7_RoundTrip ==
  \A k \in 1 .. Len(tt_calls) :
    ReverseLookup(reverse_, tt_calls[k].first) = Some(tt_calls[k].token)

\* ReverseLookup was called on the ID of the first call after further calls,
\* one of them a duplicate
C7_Witness ==
  /\ Len(tt_calls) = MaxCalls
  /\ \E j \in 2 .. Len(tt_calls) : ~tt_calls[j].second
  /\ op.name = "ReverseLookup"
  /\ op.id = tt_calls[1].first
  /\ op.ret = Some(tt_calls[1].token)

\* C8: ReverseLookup(id) returns none for every id that was never issued,
\* that is for every id >= the number of distinct strings inserted.
C8_ReverseLookupNone ==
  (op.name = "ReverseLookup" /\ op.id >= Cardinality(SeenBefore(Len(tt_calls))))
    => op.ret = None

(***************************************************************************)
(* Claims about the moniker table                                          *)
(***************************************************************************)

RECURSIVE Squeeze(_, _)
\* str without the separators that begin it or follow a separator
Squeeze(str, after_separator) ==
  IF str = <<>> THEN <<>>
  ELSE IF Head(str) = kPathSeparatorChar
    THEN IF after_separator THEN Squeeze(Tail(str), TRUE)
         ELSE <<Head(str)>> \o Squeeze(Tail(str), TRUE)
    ELSE <<Head(str)>> \o Squeeze(Tail(str), FALSE)

\* the non-empty components of path joined by the separator, with no leading
\* and no trailing separator
Joined(path) ==
  LET q == Squeeze(path, TRUE)
  IN IF q # <<>> /\ q[Len(q)] = kPathSeparatorChar
       THEN SubSeq(q, 1, Len(q) - 1)
       ELSE q

\* C9: right after Insert(i, p) for an inode i that had no terminal entry and
\* a non-empty path p, Get(i) returns the non-empty components of p joined by
\* "/", with no leading or trailing separator.
C9_PathReconstruction ==
  (op.name = "Insert" /\ ~op.had /\ op.path # <<>>)
    => TableGet(TheTable, op.id) = Some(Joined(op.path))

\* a leading and a doubled separator skipped, on a table that already holds a
\* path of two components
C9_Witness ==
  /\ op.name = "Insert" /\ ~op.had
  /\ op.path = <<"/", "/", "a">>
  /\ TableGet(TheTable, op.id) = Some(<<"a">>)
  /\ \E i \in Inodes : TableGet(TheTable, i) = Some(<<"a", "/", "a">>)

\* C10: Insert(i, p) returns true exactly when the terminal index did not
\* hold inode i right before the call.
C10_InsertReturn ==
  op.name = "Insert" => (op.ret <=> ~op.had)

\* Insert of the root inode returns true: the constructor registered it, so
\* this is a call after Clear(), and after an earlier Insert
C10_Witness ==
  /\ op.name = "Insert" /\ op.id = root_node_id_
  /\ op.ret /\ ~op.had /\ inserts = 2

\* C11: an Insert(i, p2) for an inode i whose terminal entry resolves to another
\* component sequence replaces the entry: Get(i) afterwards returns the
\* components of p2 joined by "/"; the nodes the trie had all stay.
C11_LastWriterWins ==
  [][\A i \in Inodes : \A p \in Paths :
       (/\ MonikerTable_Insert(i, p)
        /\ i \in DOMAIN id_to_terminal_
        /\ TableGet(TheTable, i) # Some(Joined(p)))
         => /\ TableGet(TheTable, i)' = Some(Joined(p))
            /\ \A j \in DOMAIN id_to_terminal_ \ {i} :
                 TableGet(TheTable, j)' = TableGet(TheTable, j)]_vars

\* C12: Insert(i, p) right after Insert(i, p) leaves the terminal index, the
\* trie nodes and the token table, next ID included, as they were, and
\* returns false.
C12_IdempotentInsert ==
  [][\A i \in Inodes : \A p \in Paths :
       (op.name = "Insert" /\ op.id = i /\ op.path = p
          /\ MonikerTable_Insert(i, p))
         => /\ UNCHANGED <<id_, forward_, reverse_, nodes, id_to_terminal_>>
            /\ ~op'.ret]_vars

\* the second of two Inserts of a path of two components for an inode the
\* constructor did not register: the first put the entry there, the second
\* found it
C12_Witness ==
  /\ op.name = "Insert" /\ inserts = 2
  /\ op.id # root_node_id_ /\ op.had /\ ~op.ret
  /\ op.path = <<"a", "/", "a">>
  /\ TableGet(TheTable, op.id) = Some(op.path)
  /\ Len(nodes) = 4 /\ id_ = 2

\* C13: Get(i) is none exactly for the inodes without a terminal entry, and
\* never fails on a missing token; an inserted inode has an entry, and after
\* Clear() no inode has one.
C13_GetNoneIffAbsent ==
  /\ \A i \in Inodes :
       /\ TableGet(TheTable, i).kind \in {"none", "some"}
       /\ (TableGet(TheTable, i) = None) <=> (i \notin DOMAIN id_to_terminal_)
  /\ op.name = "Get" =>
       ((op.ret = None) <=> (op.id \notin DOMAIN id_to_terminal_))
  /\ op.name = "Insert" => op.id \in DOMAIN id_to_terminal_
  /\ op.name = "Clear" => DOMAIN id_to_terminal_ = {}

\* Get of an inode never inserted returns none while another inode resolves
\* to a path of two components
C13_Witness ==
  /\ op.name = "Get" /\ op.ret = None
  /\ op.id \notin DOMAIN id_to_terminal_
  /\ inserts = 2
  /\ \E i \in Inodes : TableGet(TheTable, i) = Some(<<"a", "/", "a">>)

\* what popping the stack until it is empty yields: the top is the last
\* element pushed
Pops(stack) == [k \in 1 .. Len(stack) |-> stack[Len(stack) + 1 - k]]

\* C14: the node root.Get(c1)...Get(cn) has a Path() that pops c1, ..., cn in
\* that order and is then empty, whatever the words, 0 and repeats included.
C14_NodePath ==
  Pops(Path(nodes, op.node)) = op.words

\* a chain with a repeated word and the word 0, walked through a trie that an
\* earlier chain has populated
C14_Witness ==
  /\ inserts = MaxGets
  /\ Len(op.words) = 3 /\ op.words[1] = op.words[2] /\ op.words[3] = 0
  /\ op.words[1] # 0
  /\ Len(nodes) = 4
  /\ Pops(Path(nodes, op.node)) = op.words

(***************************************************************************)
(* Claims about the inode registry                                         *)
(***************************************************************************)

\* no thread is inside an upcall for key k
Quiescent(k) ==
  \A th \in FsThreads : fs_pc[th] = "idle" \/ fs_loc[th].id # k

\* the lookups of key k that the kernel holds: replied and not forgotten
Held(k) == looked[k] - forgot[k]

\* C15: whenever no thread is inside a lookup or a forget for a key, the
\* registry has a record for the key exactly when the key's lookup count is
\* above 0, and a record it has carries a count above 0.
C15_Membership ==
  fs_fault = "none" =>
    \A k \in Targets :
      Quiescent(k) =>
        /\ (k \in DOMAIN fs_inodes) <=> (Held(k) > 0)
        /\ k \in DOMAIN fs_inodes => fs_recs[fs_inodes[k]].nlookup > 0

\* the upcalls for key k are over, but for forgets of the kernel that the
\* process died in
Settled(k) ==
  \A th \in FsThreads :
    \/ fs_pc[th] = "idle"
    \/ fs_loc[th].id # k
    \/ fs_fault # "none" /\ fs_loc[th].cause = "forget"

\* C16: once the successful lookups of a key and the counts of the forgets
\* delivered for it are equal and its upcalls are over, the process is
\* running, the registry has no record for the key, and every descriptor
\* opened for the key has been closed, once.
C16_RefcountBalance ==
  \A k \in Targets :
    (looked[k] > 0 /\ looked[k] = forgot[k] /\ Settled(k))
      => /\ fs_fault = "none"
         /\ k \notin DOMAIN fs_inodes
         /\ \A f \in 1 .. Len(fd_tab) :
              fd_tab[f].id = k => fd_tab[f].closes = 1

\* C17: the descriptor of a record in the registry is open; no descriptor is
\* closed twice; and the descriptor a record holds is closed only in the
\* step that removes the record from the registry, its nlookup being 0.
C17_DescriptorLifecycle ==
  /\ [](\A k \in DOMAIN fs_inodes :
          fs_recs[fs_inodes[k]].fd # -1
            => fd_tab[fs_recs[fs_inodes[k]].fd].closes = 0)
  /\ [](\A f \in 1 .. Len(fd_tab) : fd_tab[f].closes <= 1)
  /\ [][\A h \in 1 .. Len(fs_recs) :
          (/\ fs_recs[h].fd # -1
           /\ fd_tab'[fs_recs[h].fd].closes > fd_tab[fs_recs[h].fd].closes)
            => /\ fs_recs[h].nlookup = 0
               /\ RecKey(h) \in DOMAIN fs_inodes
               /\ fs_inodes[RecKey(h)] = h
               /\ RecKey(h) \notin DOMAIN fs_inodes']_vars

\* C18: the lookup that found a record increments the nlookup of the record
\* the registry holds for the key by 1, closes its scratch descriptor and
\* returns that record's address; the lookup that found none leaves one
\* record for the key, with nlookup 1 and the scratch descriptor, open, and
\* returns its address.
C18_LookupResult ==
  [][\A th \in FsThreads :
       LET h == fs_loc[th].h
           id == fs_loc[th].id
           newfd == fs_loc[th].newfd
       IN /\ do_lookup_Inc(th) =>
               /\ id \in DOMAIN fs_inodes /\ fs_inodes[id] = h
               /\ fs_recs[h].live
               /\ fs_recs'[h].nlookup = fs_recs[h].nlookup + 1
               /\ fd_tab'[newfd].closes = 1
               /\ UNCHANGED fs_inodes
               /\ fs_pc'[th] = "idle" =>
                    fs_ret'[th] = [name |-> "lookup", err |-> "ok", h |-> h]
          /\ do_lookup_Install(th) =>
               /\ fs_inodes[id] = h /\ UNCHANGED fs_inodes
               /\ Len(fs_recs') = Len(fs_recs)
               /\ fs_recs'[h].nlookup = 1
               /\ fs_recs'[h].fd = newfd /\ fd_tab'[newfd].closes = 0
               /\ fs_pc'[th] = "idle" =>
                    fs_ret'[th] = [name |-> "lookup", err |-> "ok", h |-> h]
    ]_vars

\* the registry and the counts in it
registry == <<fs_inodes, fs_recs>>

\* C19: forget_one with n above the record's nlookup ends the process and
\* leaves nlookup and the registry as they were; get_inode of a handle
\* whose fd is -1 ends the process; any other forget takes exactly n off
\* nlookup, and goes on to remove the record exactly when that leaves 0; no
\* record leaves the registry otherwise.
C19_FatalInvariants ==
  [][/\ \A th \in FsThreads :
          LET h == fs_loc[th].h
              n == fs_loc[th].n
          IN /\ forget_one_Dec(th) =>
                  IF n > fs_recs[h].nlookup
                    THEN fs_fault' = "fatal" /\ UNCHANGED registry
                    ELSE /\ fs_fault' = "none"
                         /\ fs_recs'[h].nlookup = fs_recs[h].nlookup - n
                         /\ UNCHANGED fs_inodes
                         /\ (fs_pc'[th] = "fg_fs")
                              <=> (fs_recs[h].nlookup - n = 0)
             /\ (forget_one_GetInode(th) /\ fs_recs[h].fd = -1)
                  => fs_fault' = "fatal" /\ UNCHANGED registry
             /\ (fs_pc'[th] = "fg_fs" /\ fs_pc[th] # "fg_fs")
                  => forget_one_Dec(th)
             /\ (fs_pc'[th] = "fg_erase" /\ fs_pc[th] # "fg_erase")
                  => fs_pc[th] = "fg_fs"
     /\ DOMAIN fs_inodes' # DOMAIN fs_inodes /\ Len(fs_recs') = Len(fs_recs)
          => \E th \in FsThreads : fs_pc[th] = "fg_erase"
    ]_vars

\* a forget of 2 for a record in the registry that has nlookup 1
C19_Witness ==
  /\ fs_fault = "fatal"
  /\ \E th \in FsThreads :
       /\ fs_pc[th] = "fg_dec"
       /\ fs_loc[th].n = 2
       /\ fs_recs[fs_loc[th].h].nlookup = 1
       /\ fs_recs[fs_loc[th].h].live
       /\ fs_inodes[RecKey(fs_loc[th].h)] = fs_loc[th].h

\* the lookup of thread th ends at the checks with error e
Rejected(th, e) ==
  /\ fs_pc'[th] = "idle"
  /\ fs_ret'[th] = [name |-> "lookup", err |-> e, h |-> 0]
  /\ UNCHANGED <<fs_inodes, fs_recs, known, looked>>

\* C20: a lookup whose target is on another device than the source root
\* returns ENOTSUP, one whose target has the inode number FUSE_ROOT_ID
\* returns EIO, one whose open or stat fails returns the errno; none of them
\* creates a record or touches an nlookup, and the registry never holds a
\* record for such a target.
C20_RejectedLookups ==
  /\ [](\A k \in DOMAIN fs_inodes : k[2] = SrcDev /\ k[1] # FUSE_ROOT_ID)
  /\ [][fs_ops' # fs_ops =>
          \A th \in FsThreads : \A in \in LookupInputs :
            \A cause \in LookupCauses :
              do_lookup_Open(th, in, cause) =>
                /\ in.res # "ok" => Rejected(th, "errno")
                /\ (in.res = "ok" /\ in.id[2] # SrcDev)
                     => Rejected(th, "ENOTSUP")
                /\ (in.res = "ok" /\ in.id[2] = SrcDev
                       /\ in.id[1] = FUSE_ROOT_ID)
                     => Rejected(th, "EIO")]_vars

\* one thread's lookup was answered ENOTSUP, the other's EIO, while the
\* registry holds a record with its count
C20_Witness ==
  /\ fs_ret[1].err = "ENOTSUP" /\ fs_ret[2].err = "EIO"
  /\ \E k \in DOMAIN fs_inodes : fs_recs[fs_inodes[k]].nlookup = 1
  /\ fs_ops = MaxFsOps

(***************************************************************************)
(* Claims about sweeping and slot growth                                   *)
(***************************************************************************)

\* the Tablet objects the slot vector holds
Live == {tablets_[i] : i \in 1 .. Len(tablets_)}

\* every live tablet is empty
LiveEmpty == \A tab \in Live : tab_data[tab] = {}

\* C28: a Sweep swaps every live tablet against an empty one, and a live
\* tablet changes in no other way than by an Insert into it; so after a Sweep
\* that was called when the workers had finished every live tablet is empty, a
\* following Sweep into a fresh aggregated tablet yields the empty set, and no
\* swept value is in a live tablet again (no value is inserted twice here).
C28_SweepDrains ==
  /\ [](\A k \in 1 .. Len(sweep_log) :
          sweep_log[k].after =>
            /\ LiveEmpty
            /\ \A j \in (k + 1) .. Len(sweep_log) :
                 (\A i \in 1 .. (j - 1) : sweep_log[i].into # sweep_log[j].into)
                   => agg[sweep_log[j].into] = {})
  /\ [](\A a \in 1 .. Len(agg) : \A tab \in Live : agg[a] \cap tab_data[tab] = {})
  /\ [][tab_data' # tab_data =>
         /\ \A s \in Sweepers :
              Sweep_Swap(s) =>
                /\ tab_data'[AtSlot(tablets_, sw_i[s])] = {}
                /\ swap_tablets'[s][sw_i[s] + 1]
                     = tab_data[AtSlot(tablets_, sw_i[s])]
         /\ \A tab \in DOMAIN tab_data :
              tab_data'[tab] # tab_data[tab] =>
                \/ \E w \in Workers :
                     /\ pc[w] = "insert" /\ t[w] = tab
                     /\ tab_data'[tab] = tab_data[tab] \cup {next[w]}
                \/ \E s \in Sweepers :
                     pc[s] = "sw_swap" /\ AtSlot(tablets_, sw_i[s]) = tab
         /\ \A tab \in DOMAIN tab_data' \ DOMAIN tab_data : tab_data'[tab] = {}]_vars
  /\ [][\A s \in Sweepers :
         (pc[s] = "sw_loop" /\ pc'[s] = "sw_merge")
           => sw_i[s] = Len(tablets_) /\ Len(swap_tablets[s]) = Len(tablets_)]_vars

\* a Sweep after the workers had finished took values, and the Sweep after it,
\* into a fresh aggregated tablet, took none
C28_Witness ==
  /\ Len(sweep_log) = 2
  /\ sweep_log[1].after
  /\ sweep_log[2].into # sweep_log[1].into
  /\ Cardinality(agg[sweep_log[1].into]) = NWorkers * Count
  /\ agg[sweep_log[2].into] = {}
  /\ Len(tablets_) = NWorkers /\ LiveEmpty

\* the steps of Sweep that run under sweep_mu_
SwapPhase == {"sw_count", "sw_begin", "sw_loop", "sw_swap", "sw_merge"}

\* the places that hold value v: live tablets, the scratch tablets of the
\* sweeps in progress, aggregated tablets
Holders(v) ==
  {<<"live", tab>> : tab \in {x \in Live : v \in tab_data[x]}}
    \cup {<<"swap", s, i>> :
            <<s, i>> \in {y \in Sweepers \X (1 .. MemSlots) :
                           /\ y[2] <= Len(swap_tablets[y[1]])
                           /\ v \in swap_tablets[y[1]][y[2]]}}
    \cup {<<"agg", a>> : a \in {x \in 1 .. Len(agg) : v \in agg[x]}}

\* C30: with two threads in Sweep, each into an aggregated tablet of its own,
\* at most one of them is past sweep_mu_; every inserted value is in exactly
\* one place (a live tablet, a scratch tablet, one aggregated tablet), and a
\* value never inserted is in none; and once a Sweep that was called after the
\* workers had finished has completed, every value is in exactly one
\* aggregated tablet.
C30_SweepsSerialized ==
  /\ \A s, r \in Sweepers :
       (pc[s] \in SwapPhase /\ pc[r] \in SwapPhase) => s = r
  /\ \A s \in Sweepers : pc[s] \in SwapPhase => sweep_mu_ = s
  /\ \A v \in Values :
       /\ Cardinality(Holders(v)) = (IF ins_at[v] >= 0 THEN 1 ELSE 0)
       /\ (\E k \in 1 .. Len(sweep_log) : sweep_log[k].after)
            => \E a \in 1 .. Len(agg) : Holders(v) = {<<"agg", a>>}

\* one thread waits for sweep_mu_ while the other, in its swap loop, has taken
\* a value out of a live tablet; another value was inserted behind its back
C30_Witness ==
  /\ pc[Second] = "sw_lock" /\ pc[Main] = "sw_swap" /\ sweep_mu_ = Main
  /\ sw_into[Second] # sw_into[Main]
  /\ \E v, u \in Values :
       /\ \E i \in 1 .. Len(swap_tablets[Main]) : v \in swap_tablets[Main][i]
       /\ \E tab \in Live : u \in tab_data[tab]

\* the indices At has been called with so far
Requested ==
  {p[1] : p \in handed} \cup {at_index[w] : w \in {x \in Threads : pc[x] # "idle"}}

\* the slots the calls so far need
Needed ==
  IF Requested = {} THEN 0
  ELSE (CHOOSE i \in Requested : \A j \in Requested : j <= i) + 1

\* C29: whatever the interleaving of At(i) calls, no call fails, every call
\* that returned got the tablet of its slot i, the slot vector never has more
\* slots than the largest index requested needs, and it has exactly that many
\* once every call has returned.
C29_ExactGrowth ==
  /\ ~crashed
  /\ Len(tablets_) <= Needed
  /\ \A p \in handed : p[1] < Len(tablets_) /\ tablets_[p[1] + 1] = p[2]
  /\ (\A w \in Threads : pc[w] = "idle") => Len(tablets_) = Needed

(***************************************************************************)
(* Claims about the registry under concurrency, the tracer and quiesce     *)
(***************************************************************************)

\* the count the registry keeps for key k: 0 when it has no record
Counted(k) ==
  IF k \in DOMAIN fs_inodes THEN fs_recs[fs_inodes[k]].nlookup ELSE 0

\* C21: with forgets that cover only lookups that have returned, a lookup that
\* is about to lock and increment the record it found holds a record that is
\* still the registry's record for its key; no upcall acts on a destroyed
\* record; and whenever no upcall for a key is running, the count the registry
\* keeps for it equals its lookups minus its forgets, as after any sequential
\* order of the same upcalls.
C21_Linearizable ==
  /\ \A th \in FsThreads :
       fs_pc[th] = "lk_inc" =>
         /\ ~Freed(fs_loc[th].h)
         /\ fs_loc[th].id \in DOMAIN fs_inodes
         /\ fs_inodes[fs_loc[th].id] = fs_loc[th].h
  /\ fs_fault # "crash"
  /\ fs_fault = "none" =>
       \A k \in Targets : Quiescent(k) => Counted(k) = Held(k)

\* the frame thread w constructed last and has not destroyed
TopFrame(w) == attribution_stack[w][Len(attribution_stack[w])]

\* C22: a frame constructed while the tracer's flag is off (no log directory at
\* startup, or SetEnabled(false)) inserts nothing into a tablet; every
\* constructor pushes one nesting level and every destructor pops one; and a
\* frame constructed with an inode while the flag is on has put that inode
\* into its thread's tablet once the constructor is through.
C22_EnableFlag ==
  /\ [][\A w \in Workers :
          (Insert_Emplace(w) /\ up_add[w] = "frame") => TopFrame(w).on]_vars
  /\ [][\A w \in Workers :
          /\ (\E with_inode \in BOOLEAN : Frame_New(w, with_inode))
               => Len(attribution_stack'[w]) = Len(attribution_stack[w]) + 1
          /\ Frame_Destroy(w)
               => /\ Len(attribution_stack'[w]) = Len(attribution_stack[w]) - 1
                  /\ UNCHANGED tab_data]_vars
  /\ [](\A w \in Workers :
          (attribution_stack[w] # <<>> /\ TopFrame(w).inode # -1
             /\ TopFrame(w).on /\ ~InAdd(w) /\ ~crashed)
            => TopFrame(w).inode \in tab_data[t[w]])

RECURSIVE Lines(_, _)
\* the lines of a file's data after the unfinished line `line`
Lines(data, line) ==
  IF data = <<>> THEN IF line = <<>> THEN <<>> ELSE <<line>>
  ELSE IF Head(data) = kLineFeed
    THEN <<line>> \o Lines(Tail(data), <<>>)
    ELSE Lines(Tail(data), Append(line, Head(data)))

\* the swept inodes of file k whose moniker-table entry resolves to path
Resolving(k, path) ==
  {v \in files[k].swept : TableGet(TheTable, v) = Some(path)}

\* C23: a quiesce with logging enabled writes, for the set it swept, exactly
\* one line per swept inode that has a moniker-table entry, the line being the
\* inode's resolved path; swept inodes without an entry give no line and no
\* error, and no line stands for anything outside the swept set
C23_QuiesceOutput ==
  \A k \in 1 .. Len(files) :
    (files[k].wrote /\ log_fault = "none") =>
      LET lines == Lines(files[k].data, <<>>)
      IN /\ \A v \in files[k].swept :
              TableGet(TheTable, v).kind = "some" =>
                Cardinality({i \in 1 .. Len(lines) :
                               Some(lines[i]) = TableGet(TheTable, v)})
                  = Cardinality(Resolving(k, TableGet(TheTable, v).value))
         /\ \A i \in 1 .. Len(lines) : Resolving(k, lines[i]) # {}
         /\ files[k].swept \subseteq Values

\* C24: the k-th log file opened in the process (k from 0) carries epoch k, so
\* no two files share a name, and every open moves the counter up by one
C24_LogEpochs ==
  /\ [](\A k \in 1 .. Len(files) : files[k].epoch = k - 1)
  /\ [](\A j, k \in 1 .. Len(files) :
          j # k => files[j].epoch # files[k].epoch)
  /\ [][/\ epoch' >= epoch
        /\ files' # files /\ Len(files') > Len(files) => epoch' = epoch + 1]_vars

\* two quiesce calls of different threads have each opened and closed a file
C24_Witness ==
  /\ Len(files) = 2
  /\ files[1].by # files[2].by
  /\ files[1].closed /\ files[2].closed

RECURSIVE Bytes(_)
\* the bytes a complete log of the swept set holds: each resolved path and a
\* line feed
Bytes(swept) ==
  IF swept = {} THEN 0
  ELSE LET v == CHOOSE u \in swept : TRUE
           path == TableGet(TheTable, v)
       IN (IF path.kind = "some" THEN Len(path.value) + 1 ELSE 0)
            + Bytes(swept \ {v})

\* C27: a write failing with an error other than interrupt or would-block
\* aborts the process, a failed fsync after its five tries aborts the process
\* and the file is never closed after it; interrupted and would-block writes
\* are retried until every byte is written
C27_WriteFailureFatal ==
  \A k \in 1 .. Len(files) :
    /\ files[k].fsyncs <= FsyncTries
    /\ (files[k].fsyncs > 0 /\ ~files[k].synced) =>
         (log_fault = "abort" /\ ~files[k].closed)
    /\ (files[k].wrote /\ log_fault = "none") =>
         Len(files[k].data) = Bytes(files[k].swept)
    /\ (files[k].wrote /\ Len(files[k].data) # Bytes(files[k].swept)) =>
         log_fault = "abort"

\* C25: a quiesce started by SIGHUP runs to completion whatever the
\* interrupted thread was doing: once the handler has started it eventually
\* returns (unless an I/O failure aborts the process), and the interrupted
\* thread goes on
C25_SignalQuiesceCompletes ==
  (sig_on # 0) ~> (sig_on = 0 \/ log_fault # "none" \/ crashed)

(***************************************************************************)
(* Claims about the initial scan                                           *)
(***************************************************************************)

RECURSIVE RelPath(_, _)
\* the path of entry i relative to the start directory
RelPath(tree, i) ==
  IF tree[i].parent = 0 THEN tree[i].name
  ELSE RelPath(tree, tree[i].parent) \o <<kPathSeparatorChar>> \o tree[i].name

\* the entries the scan is to insert: directories, and files if asked for
Covered(tree, with_files) ==
  {i \in 1 .. Len(tree) : tree[i].type = "dir" \/ with_files}

\* C26: after the scan every entry below the root is in the table under its
\* path relative to the root, the value returned is the number of insertions
\* (the entries covered, which is also what the table gained), and with
\* include_files = false no inode of a file resolves
C26_InitialScan ==
  scan_pc = "done" =>
    /\ addition_count = Cardinality(Covered(fts_tree, include_files))
    /\ addition_count = Cardinality(DOMAIN id_to_terminal_ \ {RootIno})
    /\ \A i \in Covered(fts_tree, include_files) :
         TableGet(TheTable, fts_tree[i].ino) = Some(RelPath(fts_tree, i))
    /\ \A i \in 1 .. Len(fts_tree) :
         (~include_files /\ fts_tree[i].type # "dir") =>
           TableGet(TheTable, fts_tree[i].ino) = None

(***************************************************************************)
(* Claims about the moniker table under concurrency and Clear              *)
(***************************************************************************)

\* the table between calls: the counter is the length of reverse_, slot k of
\* reverse_ is the token with position k, and forward_ holds just these
TokensConsistent ==
  /\ id_ = Len(reverse_)
  /\ Cardinality(forward_) = Len(reverse_)
  /\ \A k \in 1 .. Len(reverse_) :
       reverse_[k].position = k - 1 /\ reverse_[k] \in forward_

\* the calls of GetOrInsert that returned with a new ID
Issued == {k \in 1 .. Len(tt_calls) : tt_calls[k].second}

\* C31: with GetOrInsert and ReverseLookup calls of several threads
\* interleaved, whenever no writer holds the table's lock the counter equals
\* the length of the reverse sequence and every slot is set; the IDs issued
\* are 0, 1, 2, ... without a gap or a repetition, a call that loses the race
\* for a string gets the winner's ID; a reader gets the string of the ID it
\* asked for
C31_TokenTableConcurrent ==
  /\ tok_mu.writer = 0 => TokensConsistent
  /\ {tt_calls[k].first : k \in Issued} = 0 .. (Cardinality(Issued) - 1)
  /\ \A j, k \in Issued : j # k => tt_calls[j].first # tt_calls[k].first
  /\ \A j, k \in 1 .. Len(tt_calls) :
       tt_calls[j].token = tt_calls[k].token
         => tt_calls[j].first = tt_calls[k].first
  /\ \A th \in Workers :
       (c_pc[th] = "rl_ret" /\ c_loc[th].ret.kind = "some") =>
         Token(c_loc[th].ret.value, c_loc[th].id) \in forward_

\* two threads have asked for the same string, the second lost, and a reader
\* holds the string of an ID
C31_Witness ==
  /\ Len(tt_calls) >= 2
  /\ tt_calls[1].token = tt_calls[2].token
  /\ tt_calls[1].by # tt_calls[2].by
  /\ tt_calls[1].second /\ ~tt_calls[2].second
  /\ \E th \in Workers : c_pc[th] = "rl_ret" /\ c_loc[th].ret.kind = "some"

RECURSIVE Walk(_, _, _)
\* the node a reader reaches from n with one Get per word that finds a child;
\* 0 when a child is missing
Walk(ns, n, words) ==
  IF words = <<>> THEN n
  ELSE IF Head(words) \in DOMAIN ns[n].children
    THEN Walk(ns, ns[n].children[Head(words)], Tail(words))
    ELSE 0

\* the names from the root down to node n
Reversed(seq) == [k \in 1 .. Len(seq) |-> seq[Len(seq) + 1 - k]]

\* C32: threads calling Get(w) on the same node together for a missing child
\* w make exactly one child for w and all get that node; a linked node keeps
\* its parent and its name and is reached from the root by Gets, so the trie
\* has no orphan.
C32_ConcurrentChildCreation ==
  /\ [](/\ \A j, k \in 2 .. Len(nodes) :
             (nodes[j].parent = nodes[k].parent /\ nodes[j].name = nodes[k].name)
               => j = k
        /\ \A j, k \in 1 .. Len(c_log) :
             (c_log[j].node = c_log[k].node /\ c_log[j].word = c_log[k].word)
               => c_log[j].ret = c_log[k].ret
        /\ \A k \in 1 .. Len(c_log) :
             /\ c_log[k].ret \in 2 .. Len(nodes)
             /\ nodes[c_log[k].ret].parent = c_log[k].node
             /\ nodes[c_log[k].ret].name = c_log[k].word
        /\ \A k \in 2 .. Len(nodes) :
             Walk(nodes, 1, Reversed(Path(nodes, k))) = k)
  /\ [][\A k \in 1 .. Len(nodes) :
          /\ k <= Len(nodes')
          /\ nodes'[k].parent = nodes[k].parent
          /\ nodes'[k].name = nodes[k].name]_vars

\* two threads missed the same child of the same node in the shared lookup,
\* both went on to try_emplace, and both have returned
C32_Witness ==
  \E j, k \in 1 .. Len(c_log) :
    /\ c_log[j].by # c_log[k].by
    /\ c_log[j].node = c_log[k].node
    /\ c_log[j].word = c_log[k].word
    /\ c_log[j].missed /\ c_log[k].missed
    /\ Len(nodes) >= 3


\* C33: a Get(i) that runs together with Insert(i, p) for a new inode i
\* returns none or the complete path of p, never a part of it, and what Get
\* returns for another inode is not changed by the Insert.
C33_InsertAtomic ==
  /\ [](\A th \in Workers :
          c_pc[th] = "mg_ret" =>
            /\ c_loc[th].ret = c_loc[th].snap
            /\ \/ c_loc[th].ret = None
               \/ /\ c_loc[th].id = root_node_id_
                  /\ c_loc[th].ret = Some(RootPath)
               \/ \E k \in 1 .. Len(c_log) :
                    /\ c_log[k].id = c_loc[th].id
                    /\ c_log[k].ret
                    /\ c_loc[th].ret = Some(Joined(c_log[k].path)))
  /\ [][\A j \in Inodes :
          (/\ <<nodes, id_to_terminal_, reverse_>>'
                # <<nodes, id_to_terminal_, reverse_>>
           /\ TableGet(TheTable, j)' # TableGet(TheTable, j)) =>
            /\ TableGet(TheTable, j) = None
            /\ \E th \in Workers :
                 c_pc[th] = "mi_emplace" /\ c_loc[th].id = j]_vars

\* a Get(i) called while another thread was inside Insert(i, p), p of two
\* components, has the whole of p
C33_Witness ==
  \E th \in Workers :
    /\ c_pc[th] = "mg_ret"
    /\ c_loc[th].overlap
    /\ c_loc[th].ret.kind = "some"
    /\ Len(c_loc[th].ret.value) = 3
    /\ c_loc[th].id # root_node_id_


\* Clear() has been called: nothing else takes the constructor's entry away
Cleared == root_node_id_ \notin DOMAIN id_to_terminal_

\* a table with no entry, no node below the root and no token
TableEmpty ==
  [tokens |-> TokenTableNew, nodes |-> <<MonikerNode(0, 0)>>,
   terminal |-> <<>>]

\* C34: after Clear() Get returns none for every inode, the root inode and the
\* ones inserted before included, and the root has no children; Insert and Get
\* afterwards rebuild paths as on a fresh table, and the token IDs issued
\* before still resolve to the same strings.
C34_Clear ==
  /\ [][MonikerTable_Clear =>
          /\ \A i \in Inodes \cup RootNodeIds : TableGet(TheTable, i)' = None
          /\ nodes'[1].children = <<>>
          /\ Len(nodes') = 1
          /\ reverse_' = reverse_]_vars
  /\ [][\A i \in Inodes : \A p \in Paths :
          (Cleared /\ MonikerTable_Insert(i, p)) =>
            /\ TableGet(TheTable, i)' =
                 IF i \in DOMAIN id_to_terminal_ THEN TableGet(TheTable, i)
                 ELSE TableGet(TableInsert(TableEmpty, i, p).table, i)
            /\ i \notin DOMAIN id_to_terminal_ =>
                 TableGet(TheTable, i)' = Some(Joined(p))
            /\ \A j \in Inodes \ {i} :
                 TableGet(TheTable, j)' = TableGet(TheTable, j)
            /\ \A k \in 1 .. Len(reverse_) : reverse_'[k] = reverse_[k]]_vars

\* "aa" went in before Clear(), "a/a" after it: Get has the new path, the trie
\* has its two nodes only, and "aa" keeps its token
C34_Witness ==
  /\ Cleared
  /\ op.name = "Get"
  /\ op.ret = Some(<<"a", "/", "a">>)
  /\ Len(nodes) = 3
  /\ Len(reverse_) = 3
  /\ ReverseLookup(reverse_, 1) = Some(<<"a", "a">>)


(***************************************************************************)
(* Claims about the registry's locks, the store's locks, what the tablets  *)
(* hold, the descriptors of do_lookup and readdirplus                      *)
(***************************************************************************)

\* C35: in lookup, forget, link and readdirplus a thread that holds a
\* record's mutex and the registry-wide mutex took the record's mutex first:
\* no thread takes a record's mutex while it holds the registry-wide mutex.
C35_LockOrder ==
  [][\A th \in FsThreads : \A h \in 1 .. Len(inode_m) :
       (inode_m[h] # th /\ inode_m'[h] = th) => fs_mutex # th]_vars


\* where a thread is while it is inside At, Insert, Sweep
InAt == {"at_read", "at_write"}
InTabletInsert == {"got", "insert"}
InSweep == {"sw_lock", "sw_count", "sw_begin", "sw_loop", "sw_swap",
            "sw_merge"}

\* C36: Sweep takes the sweep mutex, then the store's lock shared, then the
\* tablets' locks slot by slot, and under fair scheduling every Sweep, Insert
\* and At call returns, whatever runs beside it.
C36_SweepTerminates ==
  /\ [](\A s \in Sweepers :
          /\ pc[s] \in InSweep \ {"sw_lock"} => sweep_mu_ = s
          /\ s \in mu_readers => pc[s] \in {"sw_loop", "sw_swap"}
          /\ pc[s] = "sw_swap" =>
               /\ s \in mu_readers
               /\ tab_mu[AtSlot(tablets_, sw_i[s])] = s
               /\ \A k \in 1 .. Len(tab_mu) :
                    tab_mu[k] = s => k = AtSlot(tablets_, sw_i[s]))
  /\ \A th \in Threads :
       /\ (pc[th] \in InAt) ~> (pc[th] \notin InAt)
       /\ (pc[th] \in InTabletInsert) ~> (pc[th] = "idle")
       /\ (pc[th] \in InSweep) ~> (pc[th] = "idle")


\* C37: every value a handler puts into a tablet, through a frame or through
\* Context::Add, is the source inode number of the object touched, a key of
\* the terminal index, and never the handle the kernel uses (a record's
\* address, the reserved root ID); so an upcall on a file with a moniker
\* entry puts the file's path into the next quiesce log.
C37_SourceInodesOnly ==
  /\ [](\A v \in InTablets :
          /\ v \in DOMAIN id_to_terminal_
          /\ v # FUSE_ROOT_ID
          /\ v \notin {Address(h) : h \in 1 .. Len(fs_recs)})
  /\ [][\A w \in Workers : \A h \in 1 .. Len(fs_recs) :
          (/\ log_dir
           /\ Upcall_Getattr(w, Address(h))
           /\ fs_recs[h].src_ino \in DOMAIN id_to_terminal_)
            => TableGet(TheTable, fs_recs[h].src_ino).value
                 \in LogOf(InTablets)']_vars


\* a thread is inside do_lookup with the descriptor f it opened
ScratchInFlight(f) ==
  \E th \in FsThreads :
    /\ fs_pc[th] \in {"lk_find", "lk_new", "lk_install", "lk_inc"}
    /\ fs_loc[th].newfd = f

\* the records in the registry that hold descriptor f
Owners(f) ==
  {k \in DOMAIN fs_inodes : fs_recs[fs_inodes[k]].fd = f}

\* C38: once do_lookup has returned, on whatever path, the descriptor it
\* opened is owned by exactly one record of the registry or closed.
C38_NoDescriptorLeak ==
  \A f \in 1 .. Len(fd_tab) :
    ~ScratchInFlight(f) =>
      \/ fd_tab[f].closes > 0
      \/ Cardinality(Owners(f)) = 1


\* C39: readdirplus keeps the lookup counts in step with its reply: the
\* do_lookup of an entry adds exactly 1 to the nlookup of the entry's record;
\* for the entry that did not fit forget_one takes the 1 back from that same
\* record, and a record made only for it is removed again; an entry whose
\* lookup failed changes no count.
C39_ReaddirplusCounts ==
  [][\A th \in FsThreads :
       LET h == fs_loc[th].h
           id == fs_loc[th].id
       IN /\ \A in \in LookupInputs :
               (do_lookup_Open(th, in, "readdirplus_full")
                  /\ fs_pc'[th] = "idle") => UNCHANGED <<fs_inodes, fs_recs>>
          /\ fs_loc[th].cause = "readdirplus_full" =>
               /\ do_lookup_Inc(th) =>
                    /\ fs_recs[h].live
                    /\ id \in DOMAIN fs_inodes /\ fs_inodes[id] = h
                    /\ fs_recs'[h].nlookup = fs_recs[h].nlookup + 1
               /\ do_lookup_Install(th) =>
                    /\ fs_inodes[id] = h
                    /\ fs_recs'[h].nlookup = 1
               /\ forget_one_Dec(th) =>
                    /\ fs_fault' = "none"
                    /\ fs_recs[h].live
                    /\ id \in DOMAIN fs_inodes /\ fs_inodes[id] = h
                    /\ fs_recs'[h].nlookup = fs_recs[h].nlookup - 1
               /\ forget_one_Erase(th) =>
                    /\ fs_recs[h].live /\ fs_recs[h].nlookup = 0
                    /\ known[h] = 0
                    /\ id \in DOMAIN fs_inodes /\ fs_inodes[id] = h
                    /\ id \notin DOMAIN fs_inodes'
    ]_vars

====
